---- MODULE Spec2Model ----
(***************************************************************************)
(* A model of the orchestration core of browser-use-js: the run loop and   *)
(* step state machine of the Agent, the sequential batch executor          *)
(* Controller.multiAct, and the token-budgeted MessageManager.             *)
(*                                                                         *)
(* An action of the model is one continuation of the asynchronous code:    *)
(* everything the program does between two suspension points (a browser    *)
(* call, a model call, a timer).  pause(), resume() and stop() are calls   *)
(* of the embedding program and can only run while the agent is suspended, *)
(* so they interleave with the agent between two such continuations.       *)
(***************************************************************************)
EXTENDS Naturals, Integers, Sequences, FiniteSets, TLC

(***************************************************************************)
(* Bounds of the model.                                                    *)
(***************************************************************************)
MaxSteps == 3        \* the maxSteps argument of run()
MaxActs == 3         \* longest batch handed to multiAct by a direct caller
MaxActsPerStep == 2  \* the max_actions_per_step parameter of the agent
MaxPauses == 1       \* number of pause() calls of the embedding program
MaxFailures == 2     \* the maxFailures parameter of the agent
MaxHead == 2         \* longest free part at the start of a text handed to the MessageManager
MaxTail == 5         \* length of the run of ordinary characters that can end such a text
MaxAdded == 2        \* messages handed to the MessageManager after construction
MaxSlack == 8        \* maxInputTokens exceeds the tokens of the constructed history by at most this
SystemPromptLen == 6 \* length of the system prompt that systemPromptClass produces

(***************************************************************************)
(* DOM elements and their hashes.                                          *)
(***************************************************************************)
XDiv1 == <<[tag |-> "div", n |-> 1]>>
XDiv2 == <<[tag |-> "div", n |-> 2]>>
XSpan1 == <<[tag |-> "span", n |-> 1]>>

ElemA == [xpath |-> XDiv1, attributes |-> "a"]
ElemB == [xpath |-> XDiv2, attributes |-> "a"]
ElemC == [xpath |-> XSpan1, attributes |-> "a"]

\* The selector maps (index -> element, as a sequence) an observation can
\* return.
Pages == { <<ElemA>>, <<ElemB>>, <<ElemA, ElemB>>, <<ElemA, ElemC>> }

\* The tag names along the xpath, with the [n] position of each part removed.
GetParentBranchPath(el) == [k \in 1..Len(el.xpath) |-> el.xpath[k].tag]

\* sha256 is modelled as injective: a digest is represented by the string
\* that was hashed.
ParentBranchPathHash(path) == path
AttributesHash(attributes) == attributes
XpathHash(xpath) == xpath

HashDomElement(el) ==
    [branchPathHash |-> ParentBranchPathHash(GetParentBranchPath(el)),
     attributesHash |-> AttributesHash(el.attributes),
     xpathHash |-> XpathHash(el.xpath)]

Range(s) == {s[k] : k \in 1..Len(s)}

\* new Set(Object.values(selectorMap).map(e => e.hash.branchPathHash))
PathHashes(selectorMap) == {HashDomElement(e).branchPathHash : e \in Range(selectorMap)}

\* The full fingerprints of a selector map.
Fingerprints(selectorMap) == {HashDomElement(e) : e \in Range(selectorMap)}

\* isSubset with its arguments taken in the wrong order.
IsSubsetReversed(setA, setB) == \A elem \in setB : elem \in setA

\* isSubset(setA, setB)
IsSubset(setA, setB) == \A elem \in setA : elem \in setB

(***************************************************************************)
(* Action results.  error = "" stands for an absent or empty error; src    *)
(* names the code that built the result and of the action (1-based) that   *)
(* an executed action's result belongs to.                                 *)
(***************************************************************************)
ActResult(k, isDone, error) == [isDone |-> isDone, error |-> error, src |-> "act", of |-> k]
NewContentResult == [isDone |-> FALSE, error |-> "", src |-> "new_content", of |-> 0]
PausedResult == [isDone |-> FALSE, error |-> "paused", src |-> "interrupted", of |-> 0]
StepErrorResult(kind) == [isDone |-> FALSE, error |-> kind, src |-> "step_error", of |-> 0]
ValidatorResult == [isDone |-> FALSE, error |-> "", src |-> "validator", of |-> 0]

\* The [isDone, error] pairs an executed action can return.
ActOutcomes == { <<FALSE, "">>, <<TRUE, "">>, <<FALSE, "failed">> }

\* Kinds of errors: the name and message tests of _handleStepError.
ErrorKinds == {"token_limit", "parse", "validation", "rate_limit", "other"}

\* Decided actions: getIndex() is an element index or undefined.
NoIndex == -1
ActionKinds == { [index |-> NoIndex], [index |-> 0] }
RECURSIVE SeqsUpTo(_, _)
SeqsUpTo(S, n) ==
    IF n = 0 THEN { <<>> }
    ELSE LET shorter == SeqsUpTo(S, n - 1)
         IN shorter \cup { Append(s, x) : s \in { t \in shorter : Len(t) = n - 1 }, x \in S }
\* The batches a direct caller hands to multiAct.
Batches == SeqsUpTo(ActionKinds, MaxActs)
\* The decisions of the model: getNextAction cuts the decided list to
\* max_actions_per_step actions.
Decisions == SeqsUpTo(ActionKinds, MaxActsPerStep)

VARIABLES
    pc,                    \* where the run is suspended
    caller,                \* who called multiAct: "run" (initial actions), "step",
                           \* or "direct" (the embedding program)
    checkForNewElements,   \* argument of multiAct
    cfg,                   \* construction parameters of the agent
    step,                  \* loop variable of run()
    consecutive_failures,
    paused, stopped,       \* Agent._paused, Agent._stopped
    last_result,           \* Agent._last_result
    history,               \* AgentHistoryList.history
    state,                 \* local of step(): TRUE once the browser state was captured
    modelOutput,           \* local of step(): TRUE once the decision was obtained
    errKind,               \* the error being handled while the backoff timer runs
    actions, i, results,   \* arguments and locals of multiAct
    cached_path_hashes,    \* local of multiAct
    cachedState,           \* session.cachedState.selectorMap
    batch,                 \* "none", "running", "returned" or "threw": last multiAct call
    executed,              \* actions dispatched by the last multiAct call, in order
    cachedFingerprints,    \* fingerprints of the selector map cached at batch start
    observed,              \* re-observations of the batch: <<i, selector map>>
    stepsStarted,          \* number of step() calls
    lastStep,              \* result and ending of the step executed most recently
    success,               \* the run was declared successful
    outcome,               \* "running", "returned", "interrupted" or "failed"
    pauses,                \* number of pause() calls so far
    messages,              \* MessageHistory.messages
    totalTokens,           \* MessageHistory.totalTokens
    maxInputTokens,        \* MessageManager.maxInputTokens
    sensitiveData,         \* MessageManager.sensitiveData: entries of the map, <<>> if undefined
    toolId,                \* MessageManager.toolId
    added,                 \* number of messages added since construction
    cut,                   \* "none", "returned" or "threw": how the call of cutMessages
                           \* ended, if it was the last operation on the MessageManager
    recorded,              \* the AgentHistoryList that is saved: its history array
    file,                  \* content of the history file, NoFile before it is written
    saved,                 \* "none", "written" or "threw": how saveToFile ended
    loaded,                \* history array of the list loadFromFile returned, NoList before
    replayed,              \* argument of rerunHistory: the history array of the list
    skipFailures,          \* argument of rerunHistory
    entry,                 \* loop variable i of rerunHistory, counted from 1
    retryCount,            \* local of rerunHistory
    replayResults,         \* local results of rerunHistory
    dispatched,            \* batches rerunHistory handed to multiAct: <<entry, snapshot, actions>>
    replay,                \* "none", "running", "returned" or "threw": the rerunHistory call
    attempt,               \* how the latest call of _executeHistoryStep ended
    domElement,            \* the node a historical element is made of
    otherElement,          \* the node it is compared with
    historyElement,        \* the historical element, Null before the conversion
    same,                  \* "none", or the answer of compareHistoryElementAndDomElement
    foundNode,             \* what findHistoryElementInTree returned, if it was called
    config,                \* BrowserContext.config: allowedDomains and saveDownloadsPath
    url,                   \* page.url() of the current page
    backStack,             \* the pages page.goBack() can return to, latest last
    navCall,               \* the latest call of getState or _clickElementNode
    regCall,               \* the latest call of Registry.executeAction
    inputMessages          \* the messages the latest model call was made with

runVars == <<pc, step, stepsStarted, outcome, success>>
stepVars == <<consecutive_failures, last_result, history, lastStep, state, modelOutput, errKind>>
batchVars == <<caller, checkForNewElements, actions, i, results, cached_path_hashes,
               batch, executed, cachedFingerprints, observed>>
flagVars == <<paused, stopped, pauses>>
mmVars == <<messages, totalTokens, maxInputTokens, sensitiveData, toolId, added, cut>>
fileVars == <<recorded, file, saved, loaded>>
replayVars == <<replayed, skipFailures, entry, retryCount, replayResults, dispatched, replay,
                attempt>>
compareVars == <<domElement, otherElement, historyElement, same, foundNode>>
callVars == <<config, url, backStack, navCall, regCall, inputMessages>>
vars == <<runVars, stepVars, batchVars, cachedState, cfg, flagVars, mmVars, fileVars, replayVars,
          compareVars, callVars>>

(***************************************************************************)
(* MessageManager: texts are sequences of characters.  "#" is the one      *)
(* character of the secret value, "a" any character that is not part of    *)
(* it.                                                                     *)
(***************************************************************************)
CharsPerToken == 3          \* estimatedCharactersPerToken
ImageTokens == 800          \* imageTokens
TaskPrefixLen == 24         \* Your ultimate task is: "
TaskSuffixLen == 144        \* ". If you achieved ... continue as usual.
SensitiveInfoPrefixLen == 41  \* Here are placeholders for sensitve data: (and the space)
SensitiveInfoSuffixLen == 56  \* To use them, write <secret>the placeholder name</secret>
ExampleOutputLen == 15      \* Example output:
ExampleToolCallsLen == 355  \* JSON.stringify of the example tool call
BrowserStartedLen == 15     \* Browser started
MemoryStartLen == 38        \* [Your task history memory starts here]
ActionResultLen == 15       \* Action result: (and the space after it)
ToolCallWrapperLen == 58    \* JSON.stringify of the tool call around args and id

\* A text of n ordinary characters.
Filler(n) == [j \in 1..n |-> "a"]

SecretKey == <<"k">>
SecretValue == <<"#">>

\* `<secret>${key}</secret>`
Placeholder(key) ==
    <<"<", "s", "e", "c", "r", "e", "t", ">">> \o key
        \o <<"<", "/", "s", "e", "c", "r", "e", "t", ">">>

\* val occurs in s at position j.
Occurs(s, val, j) ==
    /\ j + Len(val) - 1 <= Len(s)
    /\ SubSeq(s, j, j + Len(val) - 1) = val

Contains(s, val) == \E j \in 1..Len(s) : Occurs(s, val, j)

\* String.prototype.replace with a string pattern: the first occurrence only.
ReplaceFirst(s, val, by) ==
    IF ~Contains(s, val) THEN s
    ELSE LET j == CHOOSE k \in 1..Len(s) :
                      Occurs(s, val, k) /\ \A l \in 1..(k - 1) : ~Occurs(s, val, l)
         IN SubSeq(s, 1, j - 1) \o by \o SubSeq(s, j + Len(val), Len(s))

\* replaceSensitive of _filterSensitiveData: one replace per entry of the map.
RECURSIVE ReplaceSensitive(_, _)
ReplaceSensitive(value, entries) ==
    IF entries = <<>> THEN value
    ELSE ReplaceSensitive(
             ReplaceFirst(value, Head(entries).val, Placeholder(Head(entries).key)),
             Tail(entries))

\* A message: the text of its content (a string, or the text item of an
\* array), the number of image_url items of an array content, and the
\* serialized tool_calls of an AIMessage.
Message(type, text, isArray, images, tool_calls) ==
    [type |-> type, text |-> text, isArray |-> isArray, images |-> images,
     tool_calls |-> tool_calls]

HumanMessage(text) == Message("human", text, FALSE, 0, <<>>)

\* MessageManager._filterSensitiveData: string contents and text items.
FilterSensitiveData(m, sd) == [m EXCEPT !.text = ReplaceSensitive(@, sd)]

\* MessageManager._countTextTokens
CountTextTokens(text) == Len(text) \div CharsPerToken

\* MessageManager._countTokens
CountTokens(m) ==
    IF m.isArray
    THEN m.images * ImageTokens + CountTextTokens(m.text)
    ELSE CountTextTokens(m.text \o m.tool_calls)

\* A history is the pair of MessageHistory.messages and .totalTokens.
EmptyHistory == [messages |-> <<>>, totalTokens |-> 0]

\* addMessage that leaves the token total as it is.
AddMessageUncounted(h, m, tokens) ==
    [messages |-> Append(h.messages, [message |-> m, inputTokens |-> tokens]),
     totalTokens |-> h.totalTokens]

\* MessageHistory.addMessage without a position
AddMessage(h, m, tokens) ==
    [messages |-> Append(h.messages, [message |-> m, inputTokens |-> tokens]),
     totalTokens |-> h.totalTokens + tokens]

\* removeMessage that always takes the first message of the history.
RemoveFirstMessage(h, index) ==
    IF Len(h.messages) > 0
    THEN [messages |-> Tail(h.messages),
          totalTokens |-> h.totalTokens - h.messages[1].inputTokens]
    ELSE h

\* MessageHistory.removeMessage
RemoveMessage(h, index) ==
    IF index >= 1 /\ index <= Len(h.messages)
    THEN [messages |-> SubSeq(h.messages, 1, index - 1)
                          \o SubSeq(h.messages, index + 1, Len(h.messages)),
          totalTokens |-> h.totalTokens - h.messages[index].inputTokens]
    ELSE h

\* MessageManager._addMessageWithTokens
AddMessageWithTokens(h, m, sd) ==
    LET filtered == IF sd # <<>> THEN FilterSensitiveData(m, sd) ELSE m
    IN AddMessage(h, filtered, CountTokens(filtered))

RECURSIVE AddAll(_, _, _)
AddAll(h, ms, sd) ==
    IF ms = <<>> THEN h
    ELSE AddAll(AddMessageWithTokens(h, Head(ms), sd), Tail(ms), sd)

\* The names of the placeholders, as Object.keys prints them.
RECURSIVE KeyNames(_)
KeyNames(entries) ==
    IF entries = <<>> THEN <<>>
    ELSE Head(entries).key \o (IF Len(entries) > 1 THEN <<",">> ELSE <<>>)
             \o KeyNames(Tail(entries))

\* The messages the constructor of MessageManager records, in order.
ConstructorMessages(task, sd) ==
    <<Message("system", Filler(SystemPromptLen), FALSE, 0, <<>>),
      HumanMessage(Filler(TaskPrefixLen) \o task \o Filler(TaskSuffixLen))>>
    \o (IF sd # <<>>
        THEN <<HumanMessage(Filler(SensitiveInfoPrefixLen) \o KeyNames(sd)
                               \o Filler(SensitiveInfoSuffixLen))>>
        ELSE <<>>)
    \o <<HumanMessage(Filler(ExampleOutputLen)),
          Message("ai", <<>>, FALSE, 0, Filler(ExampleToolCallsLen)),
          Message("tool", Filler(BrowserStartedLen), FALSE, 0, <<>>),
          HumanMessage(Filler(MemoryStartLen))>>

\* The history after new MessageManager(...)
Constructed(task, sd) == AddAll(EmptyHistory, ConstructorMessages(task, sd), sd)

\* The image-stripping part of cutMessages: the image items of the last
\* message go, and its content becomes the text of its text items.
StripImages(h) ==
    LET n == Len(h.messages)
        last == h.messages[n]
    IN IF last.message.isArray
       THEN [messages |-> [h.messages EXCEPT ![n] =
                             [message |-> [last.message EXCEPT !.isArray = FALSE,
                                                               !.images = 0],
                              inputTokens |-> last.inputTokens
                                                - last.message.images * ImageTokens]],
             totalTokens |-> h.totalTokens - last.message.images * ImageTokens]
       ELSE h

\* proportion > 0.99, for proportion = over / tokens
ProportionTooHigh(over, tokens) == tokens = 0 \/ 100 * over > 99 * tokens

RECURSIVE GCD(_, _)
GCD(m, n) == IF n = 0 THEN m ELSE GCD(n, m % n)

RECURSIVE IsPowerOfTwo(_)
IsPowerOfTwo(n) == n = 1 \/ (n > 1 /\ n % 2 = 0 /\ IsPowerOfTwo(n \div 2))

\* Math.floor(content.length * proportion) for proportion = over / tokens.
\* The product is computed in floating point from the rounded quotient: when
\* the quotient is not a binary fraction and the exact product is an
\* integer, the computed product can lie just below that integer.
CharactersToRemove(len, over, tokens) ==
    LET exact == (len * over) \div tokens
    IN {exact} \cup (IF /\ (len * over) % tokens = 0
                         /\ exact > 0
                         /\ ~IsPowerOfTwo(tokens \div GCD(over, tokens))
                      THEN {exact - 1} ELSE {})

\* The truncating part of cutMessages: the last message is removed and a
\* HumanMessage with the shortened text is added in its place.
Truncate(h, remove, sd) ==
    LET n == Len(h.messages)
        content == h.messages[n].message.text
    IN AddMessageWithTokens(RemoveMessage(h, n),
                            HumanMessage(SubSeq(content, 1, Len(content) - remove)), sd)

\* MessageManager.addPlan(plan, -1): splice(-1, 0, message) puts the
\* AIMessage before the last message; an empty or undefined plan adds
\* nothing.
WithPlan(h, plan, sd) ==
    IF plan = <<>> THEN h
    ELSE LET ai == Message("ai", plan, FALSE, 0, <<>>)
             filtered == IF sd # <<>> THEN FilterSensitiveData(ai, sd) ELSE ai
             n == Len(h.messages)
             before == IF n = 0 THEN 0 ELSE n - 1
         IN [messages |-> SubSeq(h.messages, 1, before)
                            \o <<[message |-> filtered, inputTokens |-> CountTokens(filtered)]>>
                            \o SubSeq(h.messages, before + 1, n),
             totalTokens |-> h.totalTokens + CountTokens(filtered)]

\* _removeLastStateMessage that removes the last message whatever it is.
WithoutLastMessage(h) == RemoveMessage(h, Len(h.messages))

\* MessageManager._removeLastStateMessage: the last message goes when it is
\* a HumanMessage and the history holds more than two messages.
WithoutLastStateMessage(h) ==
    IF Len(h.messages) > 2 /\ h.messages[Len(h.messages)].message.type = "human"
    THEN RemoveMessage(h, Len(h.messages))
    ELSE h

\* MessageManager.cutMessages on the history h with the budget max: the
\* ways it can end, each with the history it leaves.
CutOutcomes(h, max, sd) ==
    IF h.totalTokens - max <= 0
    THEN { [cut |-> "returned", history |-> h] }
    ELSE LET stripped == StripImages(h)
             over == stripped.totalTokens - max
             last == stripped.messages[Len(stripped.messages)]
         IN IF over <= 0
            THEN { [cut |-> "returned", history |-> stripped] }
            ELSE IF ProportionTooHigh(over, last.inputTokens)
            THEN { [cut |-> "threw", history |-> stripped] }
            ELSE { [cut |-> "returned", history |-> Truncate(stripped, remove, sd)] :
                     remove \in CharactersToRemove(Len(last.message.text), over,
                                                   last.inputTokens) }


(***************************************************************************)
(* Construction.                                                           *)
(***************************************************************************)
\* The initial_actions parameter: undefined, or a list of actions.
InitialActions == { [has |-> FALSE, acts |-> <<>>],
                    [has |-> TRUE, acts |-> <<[index |-> NoIndex], [index |-> 0]>>] }

Configs == [validate_output : BOOLEAN, initial_actions : InitialActions]

NoStep == [n |-> 0, result |-> <<>>, ending |-> "none"]

NoBatch ==
    /\ caller = "none"
    /\ checkForNewElements = TRUE
    /\ actions = <<>>
    /\ i = 0
    /\ results = <<>>
    /\ cached_path_hashes = {}
    /\ batch = "none"
    /\ executed = <<>>
    /\ cachedFingerprints = {}
    /\ observed = <<>>

\* No history file was written or read yet.
NoFile == [written |-> FALSE]
NoList == [done |-> FALSE]
NoHistoryFile ==
    /\ recorded = <<>>
    /\ file = NoFile
    /\ saved = "none"
    /\ loaded = NoList

\* rerunHistory was not called yet.
NoDispatch == [entry |-> 0]
NoReplay ==
    /\ replayed = <<>>
    /\ skipFailures = TRUE
    /\ entry = 0
    /\ retryCount = 0
    /\ replayResults = <<>>
    /\ dispatched = NoDispatch
    /\ replay = "none"
    /\ attempt = "none"

\* No element was compared yet.
NoCompare ==
    /\ domElement = ElemA
    /\ otherElement = ElemA
    /\ historyElement = [class |-> "null"]
    /\ same = "none"
    /\ foundNode = [searched |-> FALSE]

\* No call of the browser context was made yet: no allow-list, the page is
\* about:blank.
NoNavigation ==
    /\ config = [allowedDomains |-> [set |-> FALSE], saveDownloadsPath |-> FALSE]
    /\ url = [valid |-> TRUE, host |-> <<>>]
    /\ backStack = <<>>
    /\ navCall = [op |-> "none", phase |-> "done", tries |-> 0, wait |-> "idle",
                  checked |-> <<>>, wentBack |-> FALSE, thrown |-> "none"]
    /\ regCall = [called |-> FALSE, recorded |-> FALSE, failed |-> "none"]
    /\ inputMessages = <<>>

\* The sensitiveData parameter: undefined, or a map with one entry.
SensitiveMaps == { <<>>, <<[key |-> SecretKey, val |-> SecretValue]>> }

\* The task parameter.
Tasks == { Filler(1), SecretValue }

\* new MessageManager(...) with the given task, map and budget.
NewMessageManager(task, sd, slack) ==
    LET h == Constructed(task, sd)
    IN /\ messages = h.messages
       /\ totalTokens = h.totalTokens
       /\ maxInputTokens = h.totalTokens + slack
       /\ sensitiveData = sd
       /\ toolId = 2
       /\ added = 0
       /\ cut = "none"

Init ==
    /\ pc = "init"
    /\ NewMessageManager(Filler(1), <<>>, MaxSlack)
    /\ cfg \in Configs
    /\ step = 0
    /\ stepsStarted = 0
    /\ outcome = "running"
    /\ success = FALSE
    /\ consecutive_failures = 0
    /\ last_result = <<>>
    /\ history = <<>>
    /\ lastStep = NoStep
    /\ state = FALSE
    /\ modelOutput = FALSE
    /\ errKind = "none"
    /\ NoBatch
    /\ cachedState = <<>>
    /\ paused = FALSE
    /\ stopped = FALSE
    /\ pauses = 0
    /\ NoHistoryFile
    /\ NoReplay
    /\ NoCompare
    /\ NoNavigation

(***************************************************************************)
(* The run loop: Agent.run.                                                *)
(***************************************************************************)
\* AgentHistoryList.isDone
HistoryIsDone(hist) ==
    IF Len(hist) > 0
    THEN LET lastHistory == hist[Len(hist)]
         IN IF Len(lastHistory.result) > 0
            THEN lastHistory.result[Len(lastHistory.result)].isDone
            ELSE FALSE
    ELSE FALSE

\* _tooManyFailures with > in place of >=.
TooManyFailuresStrict(cf) == cf > MaxFailures

\* Agent._tooManyFailures
TooManyFailures(cf) == cf >= MaxFailures

\* _checkIfStoppedOrPaused testing only one of the two flags.
CheckIfPausedOnly == paused
CheckIfStoppedOnly == stopped

\* The counter left as it is by a successful step.
AfterSuccessKept(cf) == cf

\* consecutive_failures after multiAct has returned in step()
AfterSuccess(cf) == 0

\* Agent._checkIfStoppedOrPaused throws InterruptedError
CheckIfStoppedOrPaused == stopped \/ paused

\* run() ends: "returned" with the history list, "interrupted" when it rejects
\* with InterruptedError, "failed" when it rejects with the error of a call.
Finish(how) ==
    /\ pc' = "done"
    /\ outcome' = how
    /\ UNCHANGED <<step, stepsStarted, success>>

\* step() is called and suspends in getState().
StartStep(s) ==
    /\ pc' = "observe"
    /\ step' = s
    /\ stepsStarted' = stepsStarted + 1
    /\ UNCHANGED <<outcome, success>>

\* The head of the for loop with loop variable s, up to the next suspension:
\* the loop condition, _tooManyFailures, _handleControlFlags and step().
EnterIteration(s, cf) ==
    IF s >= MaxSteps \/ TooManyFailures(cf) \/ stopped
    THEN pc' = "done" /\ outcome' = "returned" /\ step' = s
         /\ UNCHANGED <<stepsStarted, success>>
    ELSE IF paused
         THEN pc' = "poll" /\ step' = s /\ UNCHANGED <<stepsStarted, outcome, success>>
         ELSE StartStep(s)

\* The task is declared done: the done callback runs and the loop is left.
Succeed ==
    /\ success' = TRUE
    /\ pc' = "done"
    /\ outcome' = "returned"
    /\ UNCHANGED <<step, stepsStarted>>

\* run() after step() has returned, with the history and counter it left.
AfterStep(hist, cf) ==
    IF HistoryIsDone(hist)
    THEN IF cfg.validate_output /\ step < MaxSteps - 1
         THEN pc' = "validate" /\ UNCHANGED <<step, stepsStarted, outcome, success>>
         ELSE Succeed
    ELSE EnterIteration(step + 1, cf)

(***************************************************************************)
(* The end of a step: the catch and finally blocks of Agent.step.          *)
(***************************************************************************)
\* Agent._makeHistoryItem, called by the finally block when state is set.
MakeHistoryItem(st, mo, res) ==
    IF st THEN Append(history, [modelOutput |-> mo, result |-> res]) ELSE history

\* step() returns: res is its local result, lr the new _last_result.
EndStep(res, lr, cf, st, mo, ending) ==
    LET hist == MakeHistoryItem(st, mo, res)
    IN /\ history' = hist
       /\ last_result' = lr
       /\ consecutive_failures' = cf
       /\ lastStep' = [n |-> stepsStarted, result |-> res, ending |-> ending]
       /\ state' = FALSE
       /\ modelOutput' = FALSE
       /\ errKind' = "none"
       /\ AfterStep(hist, cf)

\* InterruptedError caught by step(): result is still the empty list.
StepInterrupted(mo) ==
    EndStep(<<>>, <<PausedResult>>, consecutive_failures, TRUE, mo,
            IF stopped THEN "interrupted_stop" ELSE "interrupted_pause")

\* _handleStepError throws (cutMessages): finally runs, step() and run() reject.
StepThrows(st, mo) ==
    /\ history' = MakeHistoryItem(st, mo, <<>>)
    /\ lastStep' = [n |-> stepsStarted, result |-> <<>>, ending |-> "threw"]
    /\ state' = FALSE
    /\ modelOutput' = FALSE
    /\ errKind' = "none"
    /\ UNCHANGED <<last_result, consecutive_failures>>
    /\ Finish("failed")

\* Agent._handleStepError for an error of the given kind, then the rest of
\* the step.  A rate-limit error first sleeps for retry_delay.
HandleStepError(kind, st, mo) ==
    CASE kind = "token_limit" ->
           \E overflow \in BOOLEAN :
              IF overflow
              THEN StepThrows(st, mo)
              ELSE EndStep(<<StepErrorResult(kind)>>, <<StepErrorResult(kind)>>,
                           consecutive_failures + 1, st, mo, "failed")
      [] kind = "parse" ->
           EndStep(<<StepErrorResult(kind)>>, <<StepErrorResult(kind)>>,
                   consecutive_failures, st, mo, "failed")
      [] kind = "rate_limit" ->
           /\ pc' = "backoff"
           /\ errKind' = kind
           /\ state' = st
           /\ modelOutput' = mo
           /\ UNCHANGED <<step, stepsStarted, outcome, success>>
           /\ UNCHANGED <<consecutive_failures, last_result, history, lastStep>>
      [] OTHER ->
           EndStep(<<StepErrorResult(kind)>>, <<StepErrorResult(kind)>>,
                   consecutive_failures + 1, st, mo, "failed")

(***************************************************************************)
(* Controller.multiAct.                                                    *)
(***************************************************************************)
\* results.unshift(r) in place of results.push(r).
PushFront(res, r) == <<r>> \o res

\* results.push(r)
Push(res, r) == Append(res, r)

\* The loop-ending test without the test of the error.
ShouldBreakIgnoringError(r, k, acts) == r.isDone \/ k = Len(acts) - 1

\* The test that ends the loop after an action: its result is done or
\* carries an error, or it was the last action.
ShouldBreak(r, k, acts) == r.isDone \/ r.error # "" \/ k = Len(acts) - 1

\* The locals of a running multiAct call.
SetBatch(k, res, ex, obs) ==
    /\ batch' = "running"
    /\ i' = k
    /\ results' = res
    /\ executed' = ex
    /\ observed' = obs
    /\ UNCHANGED <<caller, checkForNewElements, actions, cached_path_hashes,
                   cachedFingerprints>>

\* multiAct is called and suspends in getSession().
StartMultiAct(acts, who, check) ==
    /\ pc' = "ma_session"
    /\ caller' = who
    /\ checkForNewElements' = check
    /\ actions' = acts
    /\ i' = 0
    /\ results' = <<>>
    /\ batch' = "running"
    /\ executed' = <<>>
    /\ observed' = <<>>
    /\ cached_path_hashes' = {}
    /\ cachedFingerprints' = {}
    /\ UNCHANGED <<step, stepsStarted, outcome, success>>

\* The call of multiAct is over.  The locals of a call made by the agent go
\* out of scope; those of a direct call are kept, for inspection.
ExitBatch(how, res, ex, obs) ==
    IF caller = "direct"
    THEN /\ batch' = how
         /\ results' = res
         /\ executed' = ex
         /\ observed' = obs
         /\ UNCHANGED <<caller, checkForNewElements, actions, i, cached_path_hashes,
                        cachedFingerprints>>
    ELSE /\ caller' = "none"
         /\ checkForNewElements' = TRUE
         /\ actions' = <<>>
         /\ i' = 0
         /\ results' = <<>>
         /\ cached_path_hashes' = {}
         /\ batch' = "none"
         /\ executed' = <<>>
         /\ cachedFingerprints' = {}
         /\ observed' = <<>>

\* multiAct returns res to its caller.
BatchReturns(res, obs) ==
    /\ ExitBatch("returned", res, executed, obs)
    /\ CASE caller = "run" ->
              /\ last_result' = res
              /\ UNCHANGED <<consecutive_failures, history, lastStep, state, modelOutput,
                             errKind>>
              /\ EnterIteration(0, consecutive_failures)
         [] caller = "step" ->
              EndStep(res, res, AfterSuccess(consecutive_failures), TRUE, TRUE, "completed")
         [] OTHER ->
              /\ pc' = "done"
              /\ UNCHANGED <<step, stepsStarted, outcome, success>>
              /\ UNCHANGED stepVars

\* multiAct throws: InterruptedError ("interrupted") or an error of a kind.
BatchThrows(kind, obs) ==
    /\ ExitBatch("threw", results, executed, obs)
    /\ CASE caller = "run" ->
              /\ UNCHANGED stepVars
              /\ Finish(IF kind = "interrupted" THEN "interrupted" ELSE "failed")
         [] caller = "step" ->
              IF kind = "interrupted"
              THEN StepInterrupted(TRUE)
              ELSE HandleStepError(kind, TRUE, TRUE)
         [] OTHER ->
              /\ pc' = "done"
              /\ UNCHANGED <<step, stepsStarted, outcome, success>>
              /\ UNCHANGED stepVars

\* act(actions[k]) is called.
Dispatch(k, obs) ==
    /\ pc' = "ma_act"
    /\ SetBatch(k, results, Append(executed, k + 1), obs)
    /\ UNCHANGED <<step, stepsStarted, outcome, success>>
    /\ UNCHANGED stepVars

\* The body of the for loop of multiAct for i = k, up to the next suspension.
LoopBody(k) ==
    IF k >= Len(actions)
    THEN BatchReturns(results, observed)
    ELSE IF CheckIfStoppedOrPaused
         THEN BatchThrows("interrupted", observed)
         ELSE IF actions[k + 1].index # NoIndex /\ k # 0
              THEN /\ pc' = "ma_reobserve"
                   /\ SetBatch(k, results, executed, observed)
                   /\ UNCHANGED <<step, stepsStarted, outcome, success>>
                   /\ UNCHANGED stepVars
              ELSE Dispatch(k, observed)

\* getSession() returns: the path hashes of the cached selector map are
\* collected, the first checkpoint is passed, removeHighlights() is called.
MultiActSession ==
    /\ pc = "ma_session"
    /\ UNCHANGED <<cachedState, cfg, mmVars, fileVars, replayVars, compareVars, callVars, flagVars>>
    /\ IF CheckIfStoppedOrPaused
       THEN BatchThrows("interrupted", observed)
       ELSE /\ pc' = "ma_highlights"
            /\ cached_path_hashes' = PathHashes(cachedState)
            /\ cachedFingerprints' = Fingerprints(cachedState)
            /\ UNCHANGED <<caller, checkForNewElements, actions, i, results, batch,
                           executed, observed>>
            /\ UNCHANGED <<step, stepsStarted, outcome, success>>
            /\ UNCHANGED stepVars

\* removeHighlights() returns: the loop starts.
MultiActHighlights ==
    /\ pc = "ma_highlights"
    /\ LoopBody(0)
    /\ UNCHANGED <<cachedState, cfg, mmVars, fileVars, replayVars, compareVars, callVars, flagVars>>

\* The re-observation before an index-targeted action returns or throws.
MultiActReobserve ==
    /\ pc = "ma_reobserve"
    /\ UNCHANGED <<cfg, mmVars, fileVars, replayVars, compareVars, callVars, flagVars>>
    /\ \/ \E newState \in Pages :
            LET obs == Append(observed, <<i, newState>>)
            IN /\ cachedState' = newState
               /\ IF checkForNewElements
                     /\ ~IsSubset(PathHashes(newState), cached_path_hashes)
                  THEN BatchReturns(Push(results, NewContentResult), obs)
                  ELSE IF CheckIfStoppedOrPaused
                       THEN BatchThrows("interrupted", obs)
                       ELSE Dispatch(i, obs)
       \/ /\ UNCHANGED cachedState
          /\ BatchThrows("other", observed)

\* act() returns a result or throws.
MultiActAct ==
    /\ pc = "ma_act"
    /\ UNCHANGED <<cachedState, cfg, mmVars, fileVars, replayVars, compareVars, callVars, flagVars>>
    /\ \/ \E o \in ActOutcomes :
            LET r == ActResult(i + 1, o[1], o[2])
                res == Push(results, r)
            IN IF ShouldBreak(r, i, actions)
               THEN BatchReturns(res, observed)
               ELSE /\ pc' = "ma_wait"
                    /\ SetBatch(i, res, executed, observed)
                    /\ UNCHANGED <<step, stepsStarted, outcome, success>>
                    /\ UNCHANGED stepVars
       \/ BatchThrows("other", observed)

\* The waitBetweenActions timer fires: next iteration.
MultiActWait ==
    /\ pc = "ma_wait"
    /\ LoopBody(i + 1)
    /\ UNCHANGED <<cachedState, cfg, mmVars, fileVars, replayVars, compareVars, callVars, flagVars>>

(***************************************************************************)
(* Agent.run and Agent.step.                                               *)
(***************************************************************************)
\* run() is called: the initial actions, or the first iteration.
RunStart ==
    /\ pc = "init"
    /\ UNCHANGED <<cachedState, cfg, mmVars, fileVars, replayVars, compareVars, callVars, flagVars>>
    /\ UNCHANGED stepVars
    /\ IF cfg.initial_actions.has
       THEN StartMultiAct(cfg.initial_actions.acts, "run", FALSE)
       ELSE /\ EnterIteration(0, consecutive_failures)
            /\ UNCHANGED batchVars

\* getState() of step() returns a state or throws.
StepObserve ==
    /\ pc = "observe"
    /\ UNCHANGED <<cfg, mmVars, fileVars, replayVars, compareVars, callVars, flagVars>>
    /\ \/ \E newState \in Pages :
            /\ cachedState' = newState
            /\ UNCHANGED batchVars
            /\ IF CheckIfStoppedOrPaused
               THEN StepInterrupted(FALSE)
               ELSE /\ pc' = "decide"
                    /\ state' = TRUE
                    /\ UNCHANGED <<step, stepsStarted, outcome, success>>
                    /\ UNCHANGED <<consecutive_failures, last_result, history, lastStep,
                                   modelOutput, errKind>>
       \/ /\ UNCHANGED <<cachedState, batchVars>>
          /\ HandleStepError("other", FALSE, FALSE)

\* The model call of getNextAction returns a decision or throws.
StepDecide ==
    /\ pc = "decide"
    /\ UNCHANGED <<cachedState, cfg, mmVars, fileVars, replayVars, compareVars, callVars, flagVars>>
    /\ \/ \E acts \in Decisions :
            IF CheckIfStoppedOrPaused
            THEN StepInterrupted(TRUE) /\ UNCHANGED batchVars
            ELSE /\ StartMultiAct(acts, "step", TRUE)
                 /\ modelOutput' = TRUE
                 /\ UNCHANGED <<consecutive_failures, last_result, history, lastStep,
                                state, errKind>>
       \/ \E kind \in ErrorKinds :
            HandleStepError(kind, TRUE, FALSE) /\ UNCHANGED batchVars

\* The retry_delay timer of _handleStepError fires.
StepBackoff ==
    /\ pc = "backoff"
    /\ UNCHANGED <<cachedState, cfg, mmVars, fileVars, replayVars, compareVars, callVars, flagVars, batchVars>>
    /\ EndStep(<<StepErrorResult(errKind)>>, <<StepErrorResult(errKind)>>,
               consecutive_failures + 1, state, modelOutput, "failed")

\* A run loop that is left when the validator rejects.
ValidateEndsRun ==
    /\ pc = "validate"
    /\ UNCHANGED <<cfg, mmVars, fileVars, replayVars, compareVars, callVars, flagVars, batchVars>>
    /\ \E newState \in Pages :
         /\ cachedState' = newState
         /\ \/ Succeed /\ UNCHANGED stepVars
            \/ /\ last_result' = <<ValidatorResult>>
               /\ UNCHANGED <<consecutive_failures, history, lastStep, state, modelOutput, errKind>>
               /\ Finish("returned")
            \/ Finish("failed") /\ UNCHANGED stepVars

\* _validateOutput: the validator accepts, rejects, or a call of it throws.
Validate ==
    /\ pc = "validate"
    /\ UNCHANGED <<cfg, mmVars, fileVars, replayVars, compareVars, callVars, flagVars, batchVars>>
    /\ \E newState \in Pages :
         /\ cachedState' = newState
         /\ \/ Succeed /\ UNCHANGED stepVars
            \/ /\ last_result' = <<ValidatorResult>>
               /\ UNCHANGED <<consecutive_failures, history, lastStep, state, modelOutput, errKind>>
               /\ EnterIteration(step + 1, consecutive_failures)
            \/ Finish("failed") /\ UNCHANGED stepVars

\* A poll loop that moves the loop variable on at every tick.
PollConsuming ==
    /\ pc = "poll"
    /\ UNCHANGED <<cachedState, cfg, mmVars, fileVars, replayVars, compareVars, callVars, flagVars, batchVars>>
    /\ UNCHANGED stepVars
    /\ IF stopped
       THEN Finish("returned")
       ELSE IF paused
            THEN /\ step' = step + 1
                 /\ UNCHANGED <<pc, stepsStarted, outcome, success>>
            ELSE StartStep(step)

\* The 200 ms timer of _handleControlFlags fires.
Poll ==
    /\ pc = "poll"
    /\ UNCHANGED <<cachedState, cfg, mmVars, fileVars, replayVars, compareVars, callVars, flagVars, batchVars>>
    /\ UNCHANGED stepVars
    /\ IF stopped
       THEN Finish("returned")
       ELSE IF paused
            THEN UNCHANGED runVars
            ELSE StartStep(step)

(***************************************************************************)
(* The embedding program: Agent.pause, Agent.resume, Agent.stop.           *)
(***************************************************************************)
Pause ==
    /\ pc # "done"
    /\ ~paused
    /\ pauses < MaxPauses
    /\ paused' = TRUE
    /\ pauses' = pauses + 1
    /\ UNCHANGED <<runVars, stepVars, batchVars, cachedState, cfg, mmVars, fileVars, replayVars, compareVars, callVars, stopped>>

Resume ==
    /\ pc # "done"
    /\ paused
    /\ paused' = FALSE
    /\ UNCHANGED <<runVars, stepVars, batchVars, cachedState, cfg, mmVars, fileVars, replayVars, compareVars, callVars, stopped, pauses>>

Stop ==
    /\ pc # "done"
    /\ ~stopped
    /\ stopped' = TRUE
    /\ UNCHANGED <<runVars, stepVars, batchVars, cachedState, cfg, mmVars, fileVars, replayVars, compareVars, callVars, paused, pauses>>

AgentNext ==
    \/ RunStart
    \/ StepObserve
    \/ StepDecide
    \/ StepBackoff
    \/ MultiActSession
    \/ MultiActHighlights
    \/ MultiActReobserve
    \/ MultiActAct
    \/ MultiActWait
    \/ Validate
    \/ Poll

Next ==
    \/ AgentNext
    \/ Pause
    \/ Resume
    \/ Stop

Spec == Init /\ [][Next]_vars

\* The step is the return of _validateOutput with the answer no.
ValidatorSaysNo ==
    /\ pc = "validate"
    /\ pc' # "validate"
    /\ ~success'
    /\ outcome' # "failed"

\* C20 as stated: when the model declared completion and the validator
\* answers no, the run does not end at that step, and the reason of the
\* validator is the result that seeds the next prompt.
C20_RejectionContinues ==
    [][ ValidatorSaysNo => last_result' = <<ValidatorResult>> /\ pc' # "done" ]_vars

\* C20, amended: when the validator answers no, its reason becomes the
\* last result; the run ends there if stop() was called meanwhile, and
\* otherwise the loop goes on: a further step starts at once, or after the
\* pause is lifted, and the last result stays as it is while the loop waits
\* and until that step builds its prompt or ends.
C20_RejectionContinuesUnlessStopped ==
    [][ /\ ValidatorSaysNo =>
              /\ last_result' = <<ValidatorResult>>
              /\ stopped => pc' = "done" /\ outcome' = "returned"
              /\ ~stopped /\ paused => pc' = "poll" /\ step' = step + 1
              /\ ~stopped /\ ~paused =>
                    pc' = "observe" /\ step' = step + 1 /\ stepsStarted' = stepsStarted + 1
        /\ (pc \in {"poll", "observe"} /\ lastStep' = lastStep)
              => last_result' = last_result ]_vars

\* The step after a rejection has built its prompt from the reason of the
\* validator.
C20_Witness ==
    /\ cfg.validate_output
    /\ pc = "decide"
    /\ last_result = <<ValidatorResult>>
    /\ HistoryIsDone(history)
    /\ stepsStarted > Len(history)

(***************************************************************************)
(* Controller.multiAct called directly by the embedding program, which may *)
(* call pause(), resume() and stop() of the agent whose checkpoint         *)
(* callback it handed over.                                                *)
(***************************************************************************)
InitBatch ==
    /\ pc = "ma_session"
    /\ NewMessageManager(Filler(1), <<>>, MaxSlack)
    /\ cfg = [validate_output |-> FALSE, initial_actions |-> [has |-> FALSE, acts |-> <<>>]]
    /\ step = 0
    /\ stepsStarted = 0
    /\ outcome = "running"
    /\ success = FALSE
    /\ consecutive_failures = 0
    /\ last_result = <<>>
    /\ history = <<>>
    /\ lastStep = NoStep
    /\ state = FALSE
    /\ modelOutput = FALSE
    /\ errKind = "none"
    /\ caller = "direct"
    /\ checkForNewElements \in BOOLEAN
    /\ actions \in Batches
    /\ i = 0
    /\ results = <<>>
    /\ cached_path_hashes = {}
    /\ batch = "running"
    /\ executed = <<>>
    /\ cachedFingerprints = {}
    /\ observed = <<>>
    /\ cachedState \in Pages \cup {<<>>}
    /\ paused = FALSE
    /\ stopped = FALSE
    /\ pauses = 0
    /\ NoHistoryFile
    /\ NoReplay
    /\ NoCompare
    /\ NoNavigation

NextBatch ==
    \/ MultiActSession
    \/ MultiActHighlights
    \/ MultiActReobserve
    \/ MultiActAct
    \/ MultiActWait
    \/ Pause
    \/ Resume
    \/ Stop

SpecBatch == InitBatch /\ [][NextBatch]_vars

(***************************************************************************)
(* The MessageManager driven through its public operations.                *)
(***************************************************************************)
\* The texts handed to the MessageManager: a free part, followed or not by
\* a run of ordinary characters.
Texts == { head \o Filler(n) : head \in SeqsUpTo({"a", "#"}, MaxHead), n \in {0, MaxTail} }

\* The extractedContent of a result that is kept in memory.
MemoryTexts == { Filler(1), SecretValue \o SecretValue }

\* The serialized decisions of the model.
ArgTexts == { Filler(2) }

CurrentHistory == [messages |-> messages, totalTokens |-> totalTokens]

SetHistory(h) ==
    /\ messages' = h.messages
    /\ totalTokens' = h.totalTokens

\* JSON.stringify(tool_calls) of addModelOutput
ToolCallsJson(args, id) ==
    Filler(ToolCallWrapperLen) \o args \o Filler(IF id < 10 THEN 1 ELSE 2)

\* MessageManager.addModelOutput: the decision as a tool call of an
\* AIMessage, and the empty ToolMessage that answers it.
WithModelOutput(h, args, id, sd) ==
    AddAll(h, <<Message("ai", <<>>, FALSE, 0, ToolCallsJson(args, id)),
                Message("tool", <<>>, FALSE, 0, <<>>)>>, sd)

\* MessageManager.addStateMessage: the results kept in memory become
\* messages of their own, then the state message follows, with the
\* screenshot as an image item when there is one.
AddStateMessage ==
    /\ pc = "mm"
    /\ \E memory \in {<<>>} \cup {<<t>> : t \in MemoryTexts}, text \in Texts,
          screenshot \in BOOLEAN :
          /\ added + Len(memory) + 1 <= MaxAdded
          /\ added' = added + Len(memory) + 1
          /\ LET kept == [j \in 1..Len(memory) |->
                            HumanMessage(Filler(ActionResultLen) \o memory[j])]
                 stateMessage == IF screenshot
                                 THEN Message("human", text, TRUE, 1, <<>>)
                                 ELSE HumanMessage(text)
             IN SetHistory(AddAll(CurrentHistory, Append(kept, stateMessage),
                                  sensitiveData))
    /\ cut' = "none"
    /\ UNCHANGED <<maxInputTokens, sensitiveData, toolId>>
    /\ UNCHANGED <<runVars, stepVars, batchVars, cachedState, cfg, flagVars, fileVars, replayVars, compareVars, callVars>>

\* MessageManager.addModelOutput
AddModelOutput ==
    /\ pc = "mm"
    /\ added + 2 <= MaxAdded
    /\ added' = added + 2
    /\ \E args \in ArgTexts :
          SetHistory(WithModelOutput(CurrentHistory, args, toolId, sensitiveData))
    /\ toolId' = toolId + 1
    /\ cut' = "none"
    /\ UNCHANGED <<maxInputTokens, sensitiveData>>
    /\ UNCHANGED <<runVars, stepVars, batchVars, cachedState, cfg, flagVars, fileVars, replayVars, compareVars, callVars>>

\* MessageManager.addPlan(plan, -1): the plan is inserted before the last
\* message.
AddPlan ==
    /\ pc = "mm"
    /\ added + 1 <= MaxAdded
    /\ added' = added + 1
    /\ SetHistory(WithPlan(CurrentHistory, Filler(2), sensitiveData))
    /\ cut' = "none"
    /\ UNCHANGED <<maxInputTokens, sensitiveData, toolId>>
    /\ UNCHANGED <<runVars, stepVars, batchVars, cachedState, cfg, flagVars, fileVars, replayVars, compareVars, callVars>>

\* MessageManager._removeLastStateMessage
RemoveLastStateMessage ==
    /\ pc = "mm"
    /\ SetHistory(WithoutLastStateMessage(CurrentHistory))
    /\ cut' = "none"
    /\ UNCHANGED <<maxInputTokens, sensitiveData, toolId, added>>
    /\ UNCHANGED <<runVars, stepVars, batchVars, cachedState, cfg, flagVars, fileVars, replayVars, compareVars, callVars>>

\* MessageManager.cutMessages
CutMessages ==
    /\ pc = "mm"
    /\ \E o \in CutOutcomes(CurrentHistory, maxInputTokens, sensitiveData) :
          /\ cut' = o.cut
          /\ SetHistory(o.history)
    /\ UNCHANGED <<maxInputTokens, sensitiveData, toolId, added>>
    /\ UNCHANGED <<runVars, stepVars, batchVars, cachedState, cfg, flagVars, fileVars, replayVars, compareVars, callVars>>

\* MessageManager.getMessages: the stored message objects themselves;
\* ref is the position of the stored message an object of the list is, 0
\* for an object that is not stored.
GetMessages(stored) == [k \in 1..Len(stored) |-> [ref |-> k, message |-> stored[k].message]]

\* convertMessagesForNonFunctionCallingModels on one message: human and
\* system messages are passed on as they are, a tool message becomes a new
\* HumanMessage, an AIMessage a new AIMessage of its serialized tool_calls
\* (the empty list serializes to "[]").
ConvertMessage(e) ==
    IF e.message.type \in {"human", "system"} THEN e
    ELSE IF e.message.type = "tool" THEN [ref |-> 0, message |-> HumanMessage(e.message.text)]
    ELSE [ref |-> 0,
          message |-> Message("ai", IF e.message.tool_calls = <<>> THEN <<"[", "]">>
                                    ELSE e.message.tool_calls, FALSE, 0, <<>>)]

\* An array content coerced to a string: "[object Object]" per item,
\* joined by commas.
ObjectText == <<"o">>
RECURSIVE ArrayToString(_)
ArrayToString(items) ==
    IF items <= 1 THEN ObjectText ELSE ObjectText \o <<",">> \o ArrayToString(items - 1)

\* The content of the last merged message after a message of the same
\* class follows it.
MergedContent(last, m) ==
    IF m.isArray
    THEN IF last.isArray
         THEN [last EXCEPT !.text = @ \o m.text, !.images = @ + m.images]
         ELSE [last EXCEPT !.text = @ \o m.text]
    ELSE IF last.isArray
         THEN [last EXCEPT !.isArray = FALSE, !.images = 0,
                           !.text = ArrayToString(1 + last.images) \o m.text]
         ELSE [last EXCEPT !.text = @ \o m.text]

\* mergeSuccessiveMessages from the k-th message of the input on: the
\* content of the merged message is assigned to the object that is last in
\* the merged list, which is a stored message when its ref is not 0.
RECURSIVE MergeSuccessiveMessages(_, _, _, _, _, _)
MergeSuccessiveMessages(input, k, merged, streak, stored, classToMerge) ==
    IF k > Len(input) THEN [merged |-> merged, stored |-> stored]
    ELSE IF input[k].message.type # classToMerge
    THEN MergeSuccessiveMessages(input, k + 1, Append(merged, input[k]), 0, stored, classToMerge)
    ELSE IF streak + 1 > 1
    THEN LET last == merged[Len(merged)]
             content == MergedContent(last.message, input[k].message)
         IN MergeSuccessiveMessages(
                input, k + 1, [merged EXCEPT ![Len(merged)].message = content], streak + 1,
                IF last.ref > 0 THEN [stored EXCEPT ![last.ref].message = content] ELSE stored,
                classToMerge)
    ELSE MergeSuccessiveMessages(input, k + 1, Append(merged, input[k]), streak + 1, stored,
                                 classToMerge)

\* Agent._convertInputMessages on the messages getMessages returns: the
\* list the model is called with, and the stored messages after the call.
ConvertedInputMessages(stored, converts) ==
    IF ~converts THEN [merged |-> GetMessages(stored), stored |-> stored]
    ELSE LET input == GetMessages(stored)
             converted == [k \in 1..Len(input) |-> ConvertMessage(input[k])]
             humans == MergeSuccessiveMessages(converted, 1, <<>>, 0, stored, "human")
         IN MergeSuccessiveMessages(humans.merged, 1, <<>>, 0, humans.stored, "ai")

\* The input of a model call is built: getMessages and
\* _convertInputMessages, which converts and merges for the models named
\* deepseek-reasoner or deepseek-r1*.  The history is followed up to the
\* first model call.
ConvertInputMessages ==
    /\ pc = "mm"
    /\ inputMessages = <<>>
    /\ pc' = "called"
    /\ \E converts \in BOOLEAN :
          LET built == ConvertedInputMessages(messages, converts)
          IN /\ inputMessages' = [k \in 1..Len(built.merged) |-> built.merged[k].message]
             /\ messages' = built.stored
    /\ cut' = "none"
    /\ UNCHANGED <<totalTokens, maxInputTokens, sensitiveData, toolId, added>>
    /\ UNCHANGED <<config, url, backStack, navCall, regCall>>
    /\ UNCHANGED <<step, stepsStarted, outcome, success>>
    /\ UNCHANGED <<stepVars, batchVars, cachedState, cfg, flagVars, fileVars, replayVars, compareVars>>

InitMM ==
    /\ pc = "mm"
    /\ \E task \in Tasks, sd \in SensitiveMaps, slack \in 0..MaxSlack :
          NewMessageManager(task, sd, slack)
    /\ cfg = [validate_output |-> FALSE, initial_actions |-> [has |-> FALSE, acts |-> <<>>]]
    /\ step = 0
    /\ stepsStarted = 0
    /\ outcome = "running"
    /\ success = FALSE
    /\ consecutive_failures = 0
    /\ last_result = <<>>
    /\ history = <<>>
    /\ lastStep = NoStep
    /\ state = FALSE
    /\ modelOutput = FALSE
    /\ errKind = "none"
    /\ NoBatch
    /\ cachedState = <<>>
    /\ paused = FALSE
    /\ stopped = FALSE
    /\ pauses = 0
    /\ NoHistoryFile
    /\ NoReplay
    /\ NoCompare
    /\ NoNavigation

NextMM ==
    \/ AddStateMessage
    \/ AddModelOutput
    \/ AddPlan
    \/ RemoveLastStateMessage
    \/ CutMessages
    \/ ConvertInputMessages

SpecMM == InitMM /\ [][NextMM]_vars

\* The sum of the costs of the messages of a list
RECURSIVE SumOfInputTokens(_)
SumOfInputTokens(ms) ==
    IF ms = <<>> THEN 0 ELSE Head(ms).inputTokens + SumOfInputTokens(Tail(ms))

\* C40: after any sequence of additions, insertions before the last
\* message, removals and cutMessages calls, the token total of the history
\* is the sum of the costs of the messages it holds.
C40_TotalIsSumOfCosts == totalTokens = SumOfInputTokens(messages)

\* A plan was inserted, and cutMessages returned with the history at the
\* token limit after it shortened the last message.
C40_Witness ==
    /\ cut = "returned"
    /\ totalTokens = maxInputTokens
    /\ added = MaxAdded
    /\ \E k \in 1..Len(messages) :
          /\ messages[k].message.type = "ai"
          /\ messages[k].message.tool_calls = <<>>
          /\ messages[k].message.text # <<>>
    /\ messages[Len(messages)].message.type = "human"

\* C39: building the input of a model call, conversion and merging for
\* the models without function calling included, leaves the stored
\* history as it is: the content and the cost of every stored message and
\* the token total are the same after it as before.
C39_BuildingInputKeepsHistory ==
    [][ inputMessages' # inputMessages
          => (messages' = messages /\ totalTokens' = totalTokens) ]_vars

(***************************************************************************)
(* Properties of the MessageManager (specification SpecMM).                *)
(***************************************************************************)
\* C1, as stated: whenever cutMessages() has returned normally, the running
\* token total of the history is at most maxInputTokens.
C1_CutWithinBudget == cut = "returned" => totalTokens <= maxInputTokens

\* C4, as stated: with a sensitive-data map configured, no recorded message
\* contains a literal secret value in its content.
C4_NoLiteralSecret ==
    \A j \in 1..Len(messages) :
        \A e \in Range(sensitiveData) : ~Contains(messages[j].message.text, e.val)

\* C11, as stated: when cutMessages() throws, the history is as it was
\* before the call: the messages, their costs and the running total.
C11_OverflowLeavesHistory ==
    [][ cut' = "threw" => messages' = messages /\ totalTokens' = totalTokens ]_vars

\* C12: a call of cutMessages(), however it ends, leaves the number of
\* messages as it was and every message but the last one as it was, with its
\* content, its cost and its position.
C12_CutTouchesLastOnly ==
    [][ cut' # "none" =>
          /\ Len(messages') = Len(messages)
          /\ \A j \in 1..(Len(messages) - 1) : messages'[j] = messages[j] ]_vars

\* cutMessages() has returned after it shortened the one state message
\* added since construction.
C12_Witness ==
    /\ cut = "returned"
    /\ sensitiveData = <<>>
    /\ added = 1
    /\ Len(messages) = Len(ConstructorMessages(<<>>, <<>>)) + 1
    /\ messages[Len(messages)].message.text \notin Texts
    /\ totalTokens = maxInputTokens

(***************************************************************************)
(* Properties of Controller.multiAct (specification SpecBatch).            *)
(***************************************************************************)
\* The branch-path hashes of the selector map cached at the start of the batch.
CachedPathHashes == {f.branchPathHash : f \in cachedFingerprints}

\* The k-th re-observation of the batch shows an element whose fingerprint
\* (all three hashes) was not cached at the start of the batch.
NewFingerprintSeen(k) ==
    /\ checkForNewElements
    /\ ~(Fingerprints(observed[k][2]) \subseteq cachedFingerprints)

\* The k-th re-observation shows an element whose branch-path hash was not
\* among those cached at the start of the batch.
NewPathSeen(k) ==
    /\ checkForNewElements
    /\ ~(PathHashes(observed[k][2]) \subseteq CachedPathHashes)

\* The batch ended at its k-th re-observation, made before action n (0-based):
\* actions 0..n-1 were executed, and their results are returned followed by
\* one interruption result.
InterruptedAt(k) ==
    LET n == observed[k][1]
    IN /\ k = Len(observed)
       /\ batch = "returned"
       /\ executed = [j \in 1..n |-> j]
       /\ Len(results) = n + 1
       /\ \A j \in 1..n : results[j].src = "act" /\ results[j].of = j
       /\ results[n + 1] = NewContentResult

C7_StopsOnDoneOrError ==
    \A j \in 1..Len(results) :
        (results[j].isDone \/ results[j].error # "")
            => (j = Len(results) /\ Len(executed) = j /\ batch = "returned")

C7_Witness ==
    /\ batch = "returned"
    /\ Len(actions) = 3
    /\ Len(results) = 2
    /\ results[2].src = "act"
    /\ results[2].error # ""

\* C8: the actions are executed in the decided order, each at most once; the
\* results are those of actions 0..k-1 in that order, an interruption entry
\* can only be the last one, and a returned list holds the result of every
\* executed action.
C8_InOrderAtMostOnce ==
    /\ \A j \in 1..Len(executed) : executed[j] = j
    /\ \A j \in 1..Len(results) :
          IF results[j].src = "act"
          THEN results[j].of = j /\ j <= Len(executed)
          ELSE j = Len(results) /\ batch = "returned"
    /\ batch = "returned" =>
          Cardinality({j \in 1..Len(results) : results[j].src = "act"}) = Len(executed)

C8_Witness ==
    /\ batch = "returned"
    /\ Len(actions) = 3
    /\ executed = <<1, 2>>
    /\ Len(results) = 3
    /\ results[3] = NewContentResult

\* The click_element handler: the element that the cached selector map
\* holds at an index, index 0 being the first entry of the map.
InSelectorMapOf(index, selectorMap) == index # NoIndex /\ index + 1 <= Len(selectorMap)
ResolveIndex(index, selectorMap) == selectorMap[index + 1]

\* C21: an index-targeted action acts on the element that carried its index
\* before the re-observation that precedes it: when the action is
\* dispatched after a re-observation that was checked for new elements,
\* its index resolves to the same element in the selector map that the
\* re-observation cached as in the one cached before.
C21_IndexKeepsElement ==
    [][ (pc = "ma_reobserve" /\ pc' = "ma_act" /\ checkForNewElements)
          => LET index == actions[i + 1].index
             IN (InSelectorMapOf(index, cachedState) /\ InSelectorMapOf(index, cachedState'))
                   => ResolveIndex(index, cachedState') = ResolveIndex(index, cachedState) ]_vars

\* The step is the return of the re-observation of multiAct; Reobserved is
\* the selector map it returned.
ReobserveReturns == pc = "ma_reobserve" /\ Len(observed') = Len(observed) + 1
Reobserved == observed'[Len(observed')][2]

\* The step ends the batch with an interruption result after the results of
\* the actions executed so far.
InterruptsBatch ==
    /\ results' = Append(results, NewContentResult)
    /\ executed' = executed
    /\ batch' = "returned"

\* C22: when every fingerprint of the re-observation was cached at the start
\* of the batch (nothing changed, or content only disappeared), the
\* re-observation adds no interruption entry and the next action is
\* executed; only the checkpoint for stop and pause that follows the
\* re-observation can keep the action from being executed.
C22_NoInterruptionWithoutNewContent ==
    [][ (ReobserveReturns /\ Fingerprints(Reobserved) \subseteq cachedFingerprints)
          => /\ results' = results
             /\ IF stopped \/ paused
                THEN batch' = "threw" /\ executed' = executed
                ELSE pc' = "ma_act" /\ executed' = Append(executed, i + 1) ]_vars

\* Content disappeared between the two actions of a batch, and both were
\* executed.
C22_Witness ==
    /\ batch = "returned"
    /\ checkForNewElements
    /\ Len(actions) = 2
    /\ executed = <<1, 2>>
    /\ Len(results) = 2
    /\ results[2].src = "act"
    /\ Len(observed) = 1
    /\ Fingerprints(observed[1][2]) \subseteq cachedFingerprints
    /\ Fingerprints(observed[1][2]) # cachedFingerprints

\* C23 as stated: a re-observation whose fingerprint set is not a superset
\* of the set captured at the start of the batch aborts the remaining
\* actions and appends a synthetic result.
C23_NotSupersetInterrupts ==
    [][ (ReobserveReturns /\ checkForNewElements
           /\ ~(cachedFingerprints \subseteq Fingerprints(Reobserved)))
          => InterruptsBatch ]_vars

\* C23, amended: with checkForNewElements set, a re-observation whose set
\* of branch-path hashes is not a subset of the set captured at the start
\* of the batch aborts the remaining actions and appends one synthetic
\* result; any other re-observation appends nothing.
C23_NotSubsetInterrupts ==
    [][ ReobserveReturns
          => IF checkForNewElements /\ ~(PathHashes(Reobserved) \subseteq cached_path_hashes)
             THEN InterruptsBatch
             ELSE results' = results ]_vars

\* A batch of two actions was aborted before the second one because a new
\* element appeared while the cached one disappeared.
C23_Witness ==
    /\ batch = "returned"
    /\ Len(actions) = 2
    /\ executed = <<1>>
    /\ results = <<ActResult(1, FALSE, ""), NewContentResult>>
    /\ Len(observed) = 1
    /\ cachedFingerprints \cap Fingerprints(observed[1][2]) = {}

(***************************************************************************)
(* Properties of the run loop (specification Spec).                        *)
(***************************************************************************)
\* An action is handed to act() in this step of the model.
Dispatches == Len(executed') = Len(executed) + 1

\* A call of step() returns to run() in this step of the model.
StepReturns == lastStep'.n # lastStep.n /\ lastStep'.ending # "threw"

\* Nothing but the failure counter can keep run() from starting a step: the
\* run is neither stopped nor paused, not successful, not waiting for the
\* validator, and has budget left.
CanContinue ==
    /\ consecutive_failures < MaxFailures
    /\ ~stopped
    /\ ~paused
    /\ ~success
    /\ pc # "validate"
    /\ step < MaxSteps

\* C3: no step is started once consecutive_failures has reached maxFailures,
\* and when a step has returned with the counter below maxFailures (the run
\* neither stopped, paused, successful, validating nor out of budget) the next
\* step is started.
C3_FailureThreshold ==
    [][ /\ (stepsStarted' # stepsStarted => consecutive_failures' < MaxFailures)
        /\ (StepReturns /\ CanContinue'
               => stepsStarted' = stepsStarted + 1 /\ pc' = "observe") ]_vars

C3_Witness ==
    /\ pc = "done"
    /\ consecutive_failures = MaxFailures
    /\ lastStep.ending = "failed"
    /\ ~stopped
    /\ ~success
    /\ step < MaxSteps

\* C13: a step that obtained a decision and ran its batch without a
\* step-level error leaves consecutive_failures at 0, and a step that fails
\* right after such a step leaves it at 1 (at 0 when the failure is a
\* response-parse error, which is not counted): failures separated by a
\* successful step never add up.
C13_SuccessResetsCounter ==
    [][ /\ (StepReturns /\ lastStep'.ending = "completed"
               => consecutive_failures' = 0)
        /\ (StepReturns /\ lastStep.ending = "completed" /\ lastStep'.ending = "failed"
               => consecutive_failures' =
                     IF lastStep'.result[1].error = "parse" THEN 0 ELSE 1) ]_vars

\* Three recorded steps: a counted failure, a success, a counted failure.
C13_Witness ==
    /\ Len(history) = 3
    /\ lastStep.n = 3
    /\ history[1].result = <<StepErrorResult("other")>>
    /\ history[2].modelOutput
    /\ history[2].result # <<>>
    /\ history[2].result[1].src = "act"
    /\ history[3].result = <<StepErrorResult("validation")>>
    /\ consecutive_failures = 1

\* run() is inside a call of step().
InStep ==
    \/ pc \in {"observe", "decide", "backoff"}
    \/ pc \in {"ma_session", "ma_highlights", "ma_reobserve", "ma_act", "ma_wait"}
          /\ caller = "step"

\* C14: the part of the budget of maxSteps that is used up is the number of
\* steps started, with or without pauses: while run() waits for the end of
\* a pause the loop variable does not move, and it is one less than the
\* number of started steps while a step runs.
C14_PauseKeepsBudget ==
    /\ stepsStarted <= MaxSteps
    /\ pc = "poll" => step = stepsStarted
    /\ InStep => step + 1 = stepsStarted

\* After a pause that cut the first step short and a resume, the run starts
\* the last step of its budget.
C14_Witness ==
    /\ pc = "observe"
    /\ stepsStarted = MaxSteps
    /\ pauses > 0
    /\ ~paused
    /\ Len(history) > 0
    /\ history[1].result = <<>>

\* C15, as stated: a step that is cut short by InterruptedError appends no
\* entry to the history list.
C15_InterruptedStepNotRecorded ==
    [][ StepReturns /\ lastStep'.ending \in {"interrupted_stop", "interrupted_pause"}
          => history' = history ]_vars

\* C16, as stated: a step that fails with a step-level error produces one
\* result with a non-empty error, which is the result of the history entry
\* that the step appends and the last result that seeds the next prompt.
C16_FailureRecorded ==
    [][ StepReturns /\ lastStep'.ending = "failed"
          => /\ Len(lastStep'.result) = 1
             /\ lastStep'.result[1].error # ""
             /\ last_result' = lastStep'.result
             /\ Len(history') = Len(history) + 1
             /\ history'[Len(history')].result = lastStep'.result ]_vars

\* How far a stopped run is from its end: the number of suspensions left.
StopRank(p) ==
    CASE p = "done" -> 0
      [] p \in {"validate", "ma_wait", "poll"} -> 1
      [] p = "backoff" -> 2
      [] p = "init" -> 4
      [] OTHER -> 3

\* C5: once stop() was called, no action is handed to act(), no step is
\* started, and every continuation of the run brings it closer to its end.
C5_StopHonored ==
    [][ stopped => /\ ~Dispatches
                   /\ stepsStarted' = stepsStarted
                   /\ (pc' # pc => StopRank(pc') < StopRank(pc)) ]_vars

C5_Witness ==
    /\ stopped
    /\ pc = "done"
    /\ outcome = "returned"
    /\ lastStep.ending = "interrupted_stop"
    /\ step < MaxSteps

C9_SuccessOnLatestStep ==
    success => /\ Len(lastStep.result) > 0
               /\ lastStep.result[Len(lastStep.result)].isDone

\* C10, as stated: when no call has thrown, run() ends by returning the
\* history list.
C10_RunReturnsHistory ==
    (pc = "done" /\ outcome # "failed") => outcome = "returned"

(***************************************************************************)
(* The history list: its entries, the history file, and the replay of a    *)
(* list against the live page.                                             *)
(***************************************************************************)
MaxEntries == 2      \* entries of a history list
MaxRetries == 2      \* the maxRetries argument of rerunHistory

\* null, and the values that stand for a decision that is missing.
Null == [class |-> "null"]
Undefined == [class |-> "undefined"]

\* A DOMElementNode of a snapshot; highlightIndex is NoIndex when undefined.
Node(el, highlightIndex) ==
    [class |-> "DOMElementNode", xpath |-> el.xpath, attributes |-> el.attributes,
     highlightIndex |-> highlightIndex]

\* The snapshots getState can return: the element nodes of the tree in
\* depth-first order.
Snapshots ==
    { <<Node(ElemA, 0), Node(ElemB, 1)>>,
      <<Node(ElemA, NoIndex), Node(ElemB, 0)>>,
      <<Node(ElemB, NoIndex), Node(ElemC, 0)>>,
      <<Node(ElemC, 0)>> }

\* index in selectorMap, and selectorMap[index]
InSelectorMap(index, snapshot) ==
    index # NoIndex /\ \E k \in 1..Len(snapshot) : snapshot[k].highlightIndex = index
SelectorMapAt(index, snapshot) ==
    snapshot[CHOOSE k \in 1..Len(snapshot) : snapshot[k].highlightIndex = index]

\* The decisions of the recorded steps: every action has getIndex()
\* undefined, 0 or 1.
RecordedActions == { [index |-> NoIndex], [index |-> 0], [index |-> 1] }
AgentOutput(action) == [class |-> "AgentOutput", action |-> action]
RecordedOutputs == { AgentOutput(a) : a \in SeqsUpTo(RecordedActions, MaxActsPerStep) }

\* JavaScript truthiness of an index: undefined and 0 are falsy.
Truthy(index) == index # NoIndex /\ index # 0

\* AgentHistory.getInteractedElement
GetInteractedElement(output, snapshot) ==
    [k \in 1..Len(output.action) |->
        LET index == output.action[k].index
        IN IF Truthy(index) /\ InSelectorMap(index, snapshot)
           THEN SelectorMapAt(index, snapshot)
           ELSE Null]

\* The entry _makeHistoryItem pushes.
NewHistoryItem(output, snapshot, result) ==
    [modelOutput |-> output,
     result |-> result,
     state |-> [class |-> "BrowserStateHistory",
                interactedElement |-> IF output.class = "AgentOutput"
                                      THEN GetInteractedElement(output, snapshot)
                                      ELSE <<Null>>]]

\* The index getter of DOMElementNode: highlightIndex || -1
IndexOf(node) == IF Truthy(node.highlightIndex) THEN node.highlightIndex ELSE -1

\* HistoryTreeProcessor.convertDomElementToHistoryElement
ConvertDomElementToHistoryElement(node) ==
    [class |-> "DOMHistoryElementImpl", xpath |-> node.xpath,
     highlightIndex |-> IndexOf(node),
     entireParentBranchPath |-> GetParentBranchPath(node),
     attributes |-> node.attributes]

\* An entry of a list that the embedding program builds: the interacted
\* elements are DOMHistoryElementImpl objects.
ProvidedHistoryItem(output, snapshot, result) ==
    LET item == NewHistoryItem(output, snapshot, result)
        elements == item.state.interactedElement
    IN [item EXCEPT !.state.interactedElement =
            [k \in 1..Len(elements) |->
                IF elements[k] = Null THEN Null
                ELSE ConvertDomElementToHistoryElement(elements[k])]]

\* The result list of a recorded step.
RecordedResult(output) ==
    IF output.class = "AgentOutput" THEN <<ActResult(1, FALSE, "")>>
    ELSE <<StepErrorResult("other")>>

\* The classes that have a toDict method.
HasToDict(x) == x.class \in {"DOMHistoryElementImpl", "BrowserStateHistory"}

\* DOMHistoryElementImpl.toDict
ElementToDict(el) == [el EXCEPT !.class = "Object"]

\* BrowserStateHistory.toDict throws a TypeError when an interacted element
\* has no toDict method.
StateCanDump(st) ==
    /\ HasToDict(st)
    /\ \A k \in 1..Len(st.interactedElement) :
          st.interactedElement[k] = Null \/ HasToDict(st.interactedElement[k])
StateToDict(st) ==
    [class |-> "Object",
     interactedElement |-> [k \in 1..Len(st.interactedElement) |->
                               IF st.interactedElement[k] = Null THEN Null
                               ELSE ElementToDict(st.interactedElement[k])]]

\* AgentHistory.modelDump followed by JSON.stringify: a missing decision
\* is written as null.
ModelDump(item) ==
    [modelOutput |-> IF item.modelOutput.class = "AgentOutput"
                     THEN [class |-> "Object", action |-> item.modelOutput.action]
                     ELSE Null,
     result |-> item.result,
     state |-> StateToDict(item.state)]
CanDump(list) == \A e \in 1..Len(list) : StateCanDump(list[e].state)
ListDump(list) == [e \in 1..Len(list) |-> ModelDump(list[e])]

\* AgentHistoryList.loadFromFile: the decision is handed to the output
\* model, the state and its elements stay plain objects.
LoadItem(h) ==
    [h EXCEPT !.modelOutput = IF h.modelOutput.class = "Object"
                              THEN AgentOutput(h.modelOutput.action)
                              ELSE Null]
ListLoad(document) == [e \in 1..Len(document) |-> LoadItem(document[e])]

\* A step of the agent appends its entry to the list.
RecordStep ==
    /\ pc = "history"
    /\ saved = "none"
    /\ Len(recorded) < MaxEntries
    /\ \E output \in RecordedOutputs \cup {Undefined}, snapshot \in Snapshots :
          recorded' = Append(recorded, NewHistoryItem(output, snapshot, RecordedResult(output)))
    /\ UNCHANGED <<file, saved, loaded>>
    /\ UNCHANGED <<runVars, stepVars, batchVars, cachedState, cfg, flagVars, mmVars, replayVars, compareVars, callVars>>

\* The embedding program adds an entry of its own making to the list.
ProvideEntry ==
    /\ pc = "history"
    /\ saved = "none"
    /\ Len(recorded) < MaxEntries
    /\ \E output \in RecordedOutputs \cup {Undefined}, snapshot \in Snapshots :
          recorded' = Append(recorded, ProvidedHistoryItem(output, snapshot, RecordedResult(output)))
    /\ UNCHANGED <<file, saved, loaded>>
    /\ UNCHANGED <<runVars, stepVars, batchVars, cachedState, cfg, flagVars, mmVars, replayVars, compareVars, callVars>>

\* AgentHistoryList.saveToFile
SaveToFile ==
    /\ pc = "history"
    /\ saved = "none"
    /\ IF CanDump(recorded)
       THEN file' = [written |-> TRUE, history |-> ListDump(recorded)] /\ saved' = "written"
       ELSE file' = file /\ saved' = "threw"
    /\ UNCHANGED <<recorded, loaded>>
    /\ UNCHANGED <<runVars, stepVars, batchVars, cachedState, cfg, flagVars, mmVars, replayVars, compareVars, callVars>>

\* AgentHistoryList.loadFromFile
LoadFromFile ==
    /\ pc = "history"
    /\ file.written
    /\ ~loaded.done
    /\ loaded' = [done |-> TRUE, history |-> ListLoad(file.history)]
    /\ UNCHANGED <<recorded, file, saved>>
    /\ UNCHANGED <<runVars, stepVars, batchVars, cachedState, cfg, flagVars, mmVars, replayVars, compareVars, callVars>>

\* HistoryTreeProcessor._hashDomHistoryElement
HashDomHistoryElement(el) ==
    [branchPathHash |-> ParentBranchPathHash(el.entireParentBranchPath),
     attributesHash |-> AttributesHash(el.attributes),
     xpathHash |-> XpathHash(el.xpath)]

\* HistoryTreeProcessor._compareHashedElements
CompareHashedElements(a, b) ==
    /\ a.branchPathHash = b.branchPathHash
    /\ a.attributesHash = b.attributesHash
    /\ a.xpathHash = b.xpathHash

\* HistoryTreeProcessor.findHistoryElementInTree: the position, in
\* depth-first order, of the first node whose hashes equal those of the
\* historical element, 0 when there is none.  The index getter of a node is
\* never null or undefined, so every node is hashed.
Matches(el, snapshot) ==
    { k \in 1..Len(snapshot) :
        CompareHashedElements(HashDomElement(snapshot[k]), HashDomHistoryElement(el)) }
FindHistoryElementInTree(el, snapshot) ==
    IF Matches(el, snapshot) = {} THEN 0
    ELSE CHOOSE k \in Matches(el, snapshot) : \A m \in Matches(el, snapshot) : k <= m

\* Agent._updateActionIndices for the k-th action of an entry: "keep" (no
\* historical element), "type_error" (the element has no
\* entireParentBranchPath, so hashing it throws), "not_found" (null is
\* returned) or "found".
UpdateStatus(item, k, snapshot) ==
    LET elements == item.state.interactedElement
    IN IF k > Len(elements) \/ elements[k] = Null THEN "keep"
       ELSE IF "entireParentBranchPath" \notin DOMAIN elements[k] THEN "type_error"
       ELSE LET found == FindHistoryElementInTree(elements[k], snapshot)
            IN IF found = 0 \/ snapshot[found].highlightIndex = NoIndex
               THEN "not_found"
               ELSE "found"
UpdatedAction(item, k, snapshot) ==
    IF UpdateStatus(item, k, snapshot) = "found"
    THEN [item.modelOutput.action[k] EXCEPT !.index =
             snapshot[FindHistoryElementInTree(item.state.interactedElement[k], snapshot)].highlightIndex]
    ELSE item.modelOutput.action[k]

\* The first action of the entry at which _executeHistoryStep throws, 0
\* when every action is updated.
FirstFailure(item, snapshot) ==
    LET failing == { k \in 1..Len(item.modelOutput.action) :
                        UpdateStatus(item, k, snapshot) \in {"type_error", "not_found"} }
    IN IF failing = {} THEN 0 ELSE CHOOSE k \in failing : \A m \in failing : k <= m

\* The actions of the entry after the loop of _executeHistoryStep: setIndex
\* changes the actions of the history entry itself.
UpdatedActions(item, snapshot) ==
    LET f == FirstFailure(item, snapshot)
    IN [k \in 1..Len(item.modelOutput.action) |->
           IF f = 0 \/ k < f THEN UpdatedAction(item, k, snapshot)
           ELSE item.modelOutput.action[k]]

\* The test of rerunHistory for an entry that has actions to replay.
HasActions(item) ==
    /\ item.modelOutput.class = "AgentOutput"
    /\ Len(item.modelOutput.action) > 0

\* What multiAct returns for a replayed batch: one result per action, or
\* the error result of the first action, after which it stops.
ReplayedResults(acts) ==
    { [k \in 1..Len(acts) |-> ActResult(k, FALSE, "")], <<ActResult(1, FALSE, "failed")>> }

ReplayErrorResult == [isDone |-> FALSE, error |-> "replay", src |-> "replay", of |-> 0]

\* Agent.rerunHistory is called with the list that was recorded
\* (rerunHistory) or with the list that was loaded from the file
\* (loadAndRerun).
RerunHistory ==
    /\ pc = "history"
    /\ replay = "none"
    /\ saved = "none" \/ loaded.done
    /\ \E list \in {IF loaded.done THEN loaded.history ELSE recorded},
          skip \in BOOLEAN :
          /\ replayed' = list
          /\ skipFailures' = skip
    /\ entry' = 1
    /\ retryCount' = 0
    /\ replayResults' = <<>>
    /\ replay' = "running"
    /\ pc' = "replay"
    /\ UNCHANGED <<dispatched, attempt>>
    /\ UNCHANGED <<step, stepsStarted, outcome, success>>
    /\ UNCHANGED <<stepVars, batchVars, cachedState, cfg, flagVars, mmVars, fileVars, compareVars, callVars>>

\* An iteration of the loop of rerunHistory for an entry without actions.
ReplaySkipEntry ==
    /\ pc = "replay"
    /\ entry <= Len(replayed)
    /\ ~HasActions(replayed[entry])
    /\ replayResults' = Append(replayResults, ReplayErrorResult)
    /\ entry' = entry + 1
    /\ retryCount' = 0
    /\ UNCHANGED <<replayed, skipFailures, dispatched, replay, attempt>>
    /\ UNCHANGED <<runVars, stepVars, batchVars, cachedState, cfg, flagVars, mmVars, fileVars, compareVars, callVars>>

\* The test of the catch clause after retryCount++: the attempt that
\* failed was the last one.
RetriesExhaustedLate(count) == count = MaxRetries + 1
RetriesExhausted(count) == count = MaxRetries

\* One pass of the retry loop of rerunHistory: _executeHistoryStep and the
\* catch clause.
ReplayAttempt ==
    /\ pc = "replay"
    /\ entry <= Len(replayed)
    /\ HasActions(replayed[entry])
    /\ \E snapshot \in Snapshots, how \in {"state_error", "act_error", "returned"} :
        LET item == replayed[entry]
            updated == UpdatedActions(item, snapshot)
            f == FirstFailure(item, snapshot)
            ending == IF how = "state_error" THEN how
                      ELSE IF f # 0 THEN UpdateStatus(item, f, snapshot)
                      ELSE how
        IN /\ attempt' = ending
           /\ replayed' = IF how = "state_error" THEN replayed
                          ELSE [replayed EXCEPT ![entry].modelOutput.action = updated]
           /\ dispatched' = IF ending \in {"act_error", "returned"}
                            THEN [entry |-> entry, snapshot |-> snapshot, actions |-> updated]
                            ELSE dispatched
           /\ IF ending = "returned"
              THEN /\ \E result \in ReplayedResults(updated) :
                         replayResults' = replayResults \o result
                   /\ entry' = entry + 1
                   /\ retryCount' = 0
                   /\ UNCHANGED <<pc, replay>>
              ELSE IF ~RetriesExhausted(retryCount + 1)
              THEN /\ retryCount' = retryCount + 1
                   /\ UNCHANGED <<pc, replay, entry, replayResults>>
              ELSE IF skipFailures
              THEN /\ entry' = entry + 1
                   /\ retryCount' = 0
                   /\ UNCHANGED <<pc, replay, replayResults>>
              ELSE /\ replayResults' = Append(replayResults, ReplayErrorResult)
                   /\ retryCount' = retryCount + 1
                   /\ replay' = "threw"
                   /\ pc' = "replayed"
                   /\ UNCHANGED entry
    /\ UNCHANGED skipFailures
    /\ UNCHANGED <<step, stepsStarted, outcome, success>>
    /\ UNCHANGED <<stepVars, batchVars, cachedState, cfg, flagVars, mmVars, fileVars, compareVars, callVars>>

\* rerunHistory returns its results once every entry was visited.
ReplayReturns ==
    /\ pc = "replay"
    /\ entry > Len(replayed)
    /\ replay' = "returned"
    /\ pc' = "replayed"
    /\ UNCHANGED <<replayed, skipFailures, entry, retryCount, replayResults, dispatched, attempt>>
    /\ UNCHANGED <<step, stepsStarted, outcome, success>>
    /\ UNCHANGED <<stepVars, batchVars, cachedState, cfg, flagVars, mmVars, fileVars, compareVars, callVars>>

InitReplay ==
    /\ pc = "history"
    /\ NewMessageManager(Filler(1), <<>>, MaxSlack)
    /\ cfg = [validate_output |-> FALSE, initial_actions |-> [has |-> FALSE, acts |-> <<>>]]
    /\ step = 0
    /\ stepsStarted = 0
    /\ outcome = "running"
    /\ success = FALSE
    /\ consecutive_failures = 0
    /\ last_result = <<>>
    /\ history = <<>>
    /\ lastStep = NoStep
    /\ state = FALSE
    /\ modelOutput = FALSE
    /\ errKind = "none"
    /\ NoBatch
    /\ cachedState = <<>>
    /\ paused = FALSE
    /\ stopped = FALSE
    /\ pauses = 0
    /\ NoHistoryFile
    /\ NoReplay
    /\ NoCompare
    /\ NoNavigation

NextReplay ==
    \/ RecordStep
    \/ ProvideEntry
    \/ SaveToFile
    \/ LoadFromFile
    \/ RerunHistory
    \/ ReplaySkipEntry
    \/ ReplayAttempt
    \/ ReplayReturns

SpecReplay == InitReplay /\ [][NextReplay]_vars

(***************************************************************************)
(* Properties of the history file and of the replay (specification         *)
(* SpecReplay).                                                            *)
(***************************************************************************)
\* Two entries hold the same data: the classes of the objects are left
\* aside, and a missing decision is the same whether undefined or null.
Plain(el) == IF el = Null THEN Null ELSE [el EXCEPT !.class = "Object"]
SameItem(a, b) ==
    /\ (a.modelOutput.class = "AgentOutput") = (b.modelOutput.class = "AgentOutput")
    /\ a.modelOutput.class = "AgentOutput" => a.modelOutput.action = b.modelOutput.action
    /\ a.result = b.result
    /\ Len(a.state.interactedElement) = Len(b.state.interactedElement)
    /\ \A k \in 1..Len(a.state.interactedElement) :
          Plain(a.state.interactedElement[k]) = Plain(b.state.interactedElement[k])
SameList(x, y) ==
    /\ Len(x) = Len(y)
    /\ \A e \in 1..Len(x) : SameItem(x[e], y[e])

\* C17: saving a history list and loading it back yields the same list, for
\* lists of 0, 1 and more entries, with or without a decision and with or
\* without interacted elements: saveToFile writes the file, and the list
\* that loadFromFile returns holds the data of the list that was saved.
C17_SaveLoadRoundTrip ==
    /\ saved # "threw"
    /\ loaded.done => SameList(loaded.history, recorded)

\* The step is the last attempt of rerunHistory at the current entry, and
\* the attempt fails because a historical element is not found.
GivesUpNotFound ==
    /\ pc = "replay"
    /\ entry <= Len(replayed)
    /\ HasActions(replayed[entry])
    /\ retryCount + 1 = MaxRetries
    /\ attempt' = "not_found"
    /\ retryCount' # retryCount + 1 \/ replay' = "threw"

\* C18: in a replay with skipFailures = true, an entry whose historical
\* element matches no node of the fresh snapshot is recorded as a failed
\* step in the results that are returned (one more result, with an error),
\* and the replay goes on to the next entry.
C18_SkippedFailureRecorded ==
    [][ GivesUpNotFound /\ skipFailures
          => /\ Len(replayResults') = Len(replayResults) + 1
             /\ replayResults'[Len(replayResults')].error # ""
             /\ replay' = "running"
             /\ entry' = entry + 1 ]_vars

\* C33: in a replay, an attempt at an entry is made only after fewer than
\* maxRetries failed attempts at it, so each entry is attempted at most
\* maxRetries times; with skipFailures = false, the failure of the last
\* attempt makes rerunHistory throw at that entry, and after that no
\* entry is executed and nothing is dispatched.
C33_BoundedRetriesThenAbort ==
    [][ /\ ReplayAttempt
           => /\ retryCount < MaxRetries
              /\ (attempt' # "returned" /\ retryCount + 1 < MaxRetries)
                    => (retryCount' = retryCount + 1 /\ entry' = entry /\ replay' = "running")
              /\ (attempt' # "returned" /\ retryCount + 1 = MaxRetries /\ ~skipFailures)
                    => (replay' = "threw" /\ pc' = "replayed" /\ entry' = entry)
        /\ replay = "threw"
           => (dispatched' = dispatched /\ entry' = entry /\ replay' = "threw") ]_vars

\* rerunHistory threw at the first of two entries after maxRetries failed
\* attempts, and the second entry has actions.
C33_Witness ==
    /\ replay = "threw"
    /\ ~skipFailures
    /\ retryCount = MaxRetries
    /\ entry = 1
    /\ Len(replayed) = 2
    /\ HasActions(replayed[2])
    /\ dispatched.entry # 2

\* C36: the entry a step appends to the history holds one
\* interacted-element slot per decided action, and slot k is non-null
\* exactly when the index of action k is in the selector map of the
\* state the step observed, for every index, 0 included.
C36_SlotPerTargetedElement ==
    [][ (/\ Len(recorded') = Len(recorded) + 1
         /\ recorded'[Len(recorded')].modelOutput.class = "AgentOutput")
          => LET item == recorded'[Len(recorded')]
             IN /\ Len(item.state.interactedElement) = Len(item.modelOutput.action)
                /\ \E snapshot \in Snapshots :
                      \A k \in 1..Len(item.modelOutput.action) :
                         (item.state.interactedElement[k] # Null)
                            <=> InSelectorMap(item.modelOutput.action[k].index, snapshot) ]_vars

\* The k-th action of an entry targeted an element when it was decided:
\* its index was in the selector map of the step.  Every snapshot holds a
\* node with highlightIndex 0, and an interacted element is stored only for
\* an index of the selector map.
TargetsElement(item, k) ==
    \/ item.modelOutput.action[k].index = 0
    \/ (k <= Len(item.state.interactedElement) /\ item.state.interactedElement[k] # Null)

\* The node of a snapshot an action with this index lands on has the
\* fingerprint of the historical element.
LandsOn(index, snapshot, el) ==
    /\ el # Null
    /\ "entireParentBranchPath" \in DOMAIN el
    /\ \E n \in 1..Len(snapshot) :
          /\ snapshot[n].highlightIndex = index
          /\ CompareHashedElements(HashDomElement(snapshot[n]), HashDomHistoryElement(el))

\* C32: in a replay, every historical action that targets an element is
\* dispatched with the highlightIndex of a node of the fresh snapshot whose
\* fingerprint equals that of the element recorded for the action.
C32_DispatchedOnMatchedElement ==
    [][ dispatched' # dispatched
          => \A k \in 1..Len(dispatched'.actions) :
                TargetsElement(replayed[entry], k)
                   => LandsOn(dispatched'.actions[k].index, dispatched'.snapshot,
                              replayed[entry].state.interactedElement[k]) ]_vars

(***************************************************************************)
(* Comparing a historical element with a node of a snapshot.               *)
(***************************************************************************)
\* The tag names along the parent pointers of a node, the node itself
\* included: those of its xpath when the node is in the top document, and
\* those below an iframe when it is in a frame, since the xpath restarts at
\* the last iframe or shadow root.
Tags(xpath) == [k \in 1..Len(xpath) |-> xpath[k].tag]
ParentChains(xpath) == { Tags(xpath), <<"iframe">> \o Tags(xpath) }

\* The nodes that are compared.
ComparedNodes ==
    UNION { { [class |-> "DOMElementNode", xpath |-> xpath, attributes |-> attributes,
               highlightIndex |-> highlightIndex, parents |-> parents] :
                 attributes \in {"a", "b"}, highlightIndex \in {NoIndex, 0, 1},
                 parents \in ParentChains(xpath) } :
            xpath \in {XDiv1, XDiv2, XSpan1} }

\* HistoryTreeProcessor.compareHistoryElementAndDomElement
CompareHistoryElementAndDomElement(el, node) ==
    CompareHashedElements(HashDomHistoryElement(el), HashDomElement(node))

\* HistoryTreeProcessor.convertDomElementToHistoryElement is applied to
\* the first node.
Convert ==
    /\ pc = "compare"
    /\ historyElement = Null
    /\ historyElement' = ConvertDomElementToHistoryElement(domElement)
    /\ UNCHANGED <<domElement, otherElement, same, foundNode>>
    /\ UNCHANGED <<runVars, stepVars, batchVars, cachedState, cfg, flagVars, mmVars, fileVars, replayVars, callVars>>

\* The historical element is compared with the second node.
Compare ==
    /\ pc = "compare"
    /\ historyElement # Null
    /\ same = "none"
    /\ same' = IF CompareHistoryElementAndDomElement(historyElement, otherElement)
               THEN "true" ELSE "false"
    /\ UNCHANGED <<domElement, otherElement, historyElement, foundNode>>
    /\ UNCHANGED <<runVars, stepVars, batchVars, cachedState, cfg, flagVars, mmVars, fileVars, replayVars, callVars>>

\* findHistoryElementInTree was not called yet.
NoSearch == [searched |-> FALSE]

\* The tree that is searched: the second node comes before the first one
\* in depth-first order.
SearchedTree == <<otherElement, domElement>>

\* HistoryTreeProcessor.findHistoryElementInTree is called with the
\* historical element and the tree: at is the position of the node it
\* returns, 0 for undefined.
Find ==
    /\ pc = "compare"
    /\ historyElement # Null
    /\ foundNode = NoSearch
    /\ foundNode' = [searched |-> TRUE,
                 at |-> FindHistoryElementInTree(historyElement, SearchedTree)]
    /\ UNCHANGED <<domElement, otherElement, historyElement, same>>
    /\ UNCHANGED <<runVars, stepVars, batchVars, cachedState, cfg, flagVars, mmVars, fileVars, replayVars, callVars>>

InitCompare ==
    /\ pc = "compare"
    /\ NewMessageManager(Filler(1), <<>>, MaxSlack)
    /\ cfg = [validate_output |-> FALSE, initial_actions |-> [has |-> FALSE, acts |-> <<>>]]
    /\ step = 0
    /\ stepsStarted = 0
    /\ outcome = "running"
    /\ success = FALSE
    /\ consecutive_failures = 0
    /\ last_result = <<>>
    /\ history = <<>>
    /\ lastStep = NoStep
    /\ state = FALSE
    /\ modelOutput = FALSE
    /\ errKind = "none"
    /\ NoBatch
    /\ cachedState = <<>>
    /\ paused = FALSE
    /\ stopped = FALSE
    /\ pauses = 0
    /\ NoHistoryFile
    /\ NoReplay
    /\ domElement \in ComparedNodes
    /\ otherElement \in ComparedNodes
    /\ historyElement = Null
    /\ same = "none"
    /\ foundNode = NoSearch
    /\ NoNavigation

NextCompare ==
    \/ Convert
    \/ Compare
    \/ Find

SpecCompare == InitCompare /\ [][NextCompare]_vars

\* The second node is the first one but for its highlightIndex.
DifferOnlyInHighlightIndex ==
    /\ domElement.highlightIndex # otherElement.highlightIndex
    /\ [domElement EXCEPT !.highlightIndex = otherElement.highlightIndex] = otherElement

\* C19: two nodes that differ only in highlightIndex are the same element,
\* and two nodes with the same xpath but different tag paths of ancestors
\* are not.
C19_MatchingPrecision ==
    same # "none" =>
        /\ DifferOnlyInHighlightIndex => same = "true"
        /\ (domElement.xpath = otherElement.xpath /\ domElement.parents # otherElement.parents)
              => same = "false"

\* The nodes of the tree that carry a highlightIndex and whose three
\* hashes equal those of the historical element.
InteractiveMatches ==
    { k \in 1..Len(SearchedTree) :
        /\ SearchedTree[k].highlightIndex # NoIndex
        /\ CompareHistoryElementAndDomElement(historyElement, SearchedTree[k]) }

\* C31: findHistoryElementInTree returns the first node in depth-first
\* order that carries a highlightIndex and whose three hashes equal those
\* of the historical element, and undefined when there is none.
C31_FirstInteractiveMatch ==
    foundNode.searched =>
        foundNode.at = IF InteractiveMatches = {} THEN 0
                   ELSE CHOOSE k \in InteractiveMatches : \A j \in InteractiveMatches : k <= j

\* A handler threw in a batch of a step after at least one action of the
\* batch had returned its result, and the step ends.
HandlerThrowsMidBatch ==
    /\ pc = "ma_act"
    /\ caller = "step"
    /\ results # <<>>
    /\ lastStep'.n = stepsStarted
    /\ lastStep'.ending = "failed"

\* C38: when the handler of an action throws in the middle of a batch, the
\* results of the actions the batch had executed are among the results
\* the step records in its history entry and keeps as the last result
\* for the next prompt.
C38_EarlierResultsKept ==
    [][ HandlerThrowsMidBatch
          => \A k \in 1..Len(results) :
                /\ \E j \in 1..Len(last_result') : last_result'[j] = results[k]
                /\ \E j \in 1..Len(lastStep'.result) : lastStep'.result[j] = results[k]
                /\ \E j \in 1..Len(history'[Len(history')].result) :
                       history'[Len(history')].result[j] = results[k] ]_vars

(***************************************************************************)
(* Agent.step and the message history: the step adds the state message,   *)
(* awaits the planner and the model, and cleans the history up, while the *)
(* embedding program may call addNewTask, pause, resume and stop.         *)
(* multiAct is one suspension here: it returns a result list or throws.   *)
(***************************************************************************)
MaxNewTasks == 1
ActionErrorLen == 14        \* Action error: (and the space after it)
NewTaskPrefixLen == 28      \* Your new ultimate task is: "
NewTaskSuffixLen == 76      \* ". Take the previous context ... new ultimate task.
TokenReduction == 500       \* this.max_input_tokens - 500

\* The first character of a state description and of a new-task message.
StateMark == "S"
NewTaskMark == "T"

\* The text of AgentMessagePrompt for the state observed by step n.  No
\* results are listed in it: addStateMessage hands the results kept in
\* memory over as messages of their own, and every ActionResult is kept.
StateDescription(n) == <<StateMark>> \o Filler(n)

\* The content of the message of MessageManager.addNewTask.
NewTaskContent(task) ==
    <<NewTaskMark>> \o Filler(NewTaskPrefixLen - 1) \o task \o Filler(NewTaskSuffixLen)

IsStateMessage(mm) == mm.message.type = "human" /\ Head(mm.message.text) = StateMark
IsNewTaskMessage(mm) == mm.message.type = "human" /\ Head(mm.message.text) = NewTaskMark
HasText(mm) == mm.message.text # <<>>

\* The state messages and the new-task messages of a list of messages.
StateMessagesOf(msgs) == SelectSeq(SelectSeq(msgs, HasText), IsStateMessage)
NewTaskMessagesOf(msgs) == SelectSeq(SelectSeq(msgs, HasText), IsNewTaskMessage)

\* The loop of addStateMessage over the results: an error becomes an
\* 'Action error' message, an extracted content an 'Action result' message.
\* The text of an error is one symbol, the content one character.
RECURSIVE MemoryMessages(_)
MemoryMessages(result) ==
    IF result = <<>> THEN <<>>
    ELSE <<IF Head(result).error # ""
           THEN HumanMessage(Filler(ActionErrorLen) \o <<Head(result).error>>)
           ELSE HumanMessage(Filler(ActionResultLen) \o Filler(1))>>
         \o MemoryMessages(Tail(result))

\* MessageManager.addStateMessage(state, result) in step n, without a
\* screenshot.
WithStateMessage(h, result, n, sd) ==
    AddAll(h, Append(MemoryMessages(result), HumanMessage(StateDescription(n))), sd)

\* MessageManager.addNewTask
WithNewTask(h, task, sd) == AddMessageWithTokens(h, HumanMessage(NewTaskContent(task)), sd)

\* The plans of the planner: none, or a text.
Plans == { <<>>, Filler(2) }

\* The result lists multiAct returns to the step.
StepResults == { <<ActResult(1, FALSE, "")>>, <<ActResult(1, TRUE, "")>> }

\* The Error that getNextAction throws when the response of the model holds
\* no parsed decision.  Its name is Error and its message has none of the
\* signals, so that _handleStepError treats it as any other error.
Unparsed == "unparsed"

\* The errors of the model call: those that the name and message tests of
\* _handleStepError tell apart, and the parse failure of getNextAction.
ModelCallErrorKinds == {"token_limit", "parse", "rate_limit", "other", Unparsed}

\* The budgets left over the constructed history.
StepSlacks == { 495 }

\* The agent of this part: no validator, no initial actions, with or
\* without a planner, and the token budget it hands to its MessageManager.
StepConfigs ==
    { [validate_output |-> FALSE, initial_actions |-> [has |-> FALSE, acts |-> <<>>],
       planner |-> p,
       max_input_tokens |-> Constructed(Filler(1), <<>>).totalTokens + slack] :
         p \in BOOLEAN, slack \in StepSlacks }

\* _handleStepError on the history h, then the rest of the step: for a
\* token-limit error the budget is lowered and cutMessages runs, and what
\* cutMessages throws leaves step() and run() as a rejection.
HandleStepErrorCutting(kind, st, mo, h) ==
    IF kind = "token_limit"
    THEN \E o \in CutOutcomes(h, cfg.max_input_tokens - TokenReduction, sensitiveData) :
            /\ maxInputTokens' = cfg.max_input_tokens - TokenReduction
            /\ cut' = o.cut
            /\ SetHistory(o.history)
            /\ IF o.cut = "threw"
               THEN StepThrows(st, mo)
               ELSE EndStep(<<StepErrorResult(kind)>>, <<StepErrorResult(kind)>>,
                            consecutive_failures + 1, st, mo, "failed")
    ELSE /\ SetHistory(h)
         /\ UNCHANGED <<maxInputTokens, cut>>
         /\ HandleStepError(kind, st, mo)

\* getState() of step() returns or throws; the first checkpoint, then
\* addStateMessage, and without a planner the second checkpoint at once.
StepAddsState ==
    /\ pc = "observe"
    /\ UNCHANGED <<cfg, fileVars, replayVars, compareVars, callVars, flagVars, batchVars>>
    /\ UNCHANGED <<sensitiveData, toolId, added>>
    /\ \/ /\ cachedState' = <<ElemA>>
          /\ UNCHANGED <<maxInputTokens, cut>>
          /\ IF CheckIfStoppedOrPaused
             THEN /\ UNCHANGED <<messages, totalTokens>>
                  /\ StepInterrupted(FALSE)
             ELSE /\ SetHistory(WithStateMessage(CurrentHistory, last_result, stepsStarted,
                                                 sensitiveData))
                  /\ pc' = IF cfg.planner THEN "plan" ELSE "decide"
                  /\ state' = TRUE
                  /\ UNCHANGED <<step, stepsStarted, outcome, success>>
                  /\ UNCHANGED <<consecutive_failures, last_result, history, lastStep,
                                 modelOutput, errKind>>
       \/ /\ UNCHANGED cachedState
          /\ HandleStepErrorCutting("other", FALSE, FALSE, CurrentHistory)

\* _runPlanner returns a plan or throws; addPlan, then the second
\* checkpoint, which is outside the try block of the model call.
StepPlans ==
    /\ pc = "plan"
    /\ UNCHANGED <<cachedState, cfg, fileVars, replayVars, compareVars, callVars, flagVars, batchVars>>
    /\ UNCHANGED <<sensitiveData, toolId, added>>
    /\ \/ \E plan \in Plans :
            /\ SetHistory(WithPlan(CurrentHistory, plan, sensitiveData))
            /\ UNCHANGED <<maxInputTokens, cut>>
            /\ IF CheckIfStoppedOrPaused
               THEN StepInterrupted(FALSE)
               ELSE /\ pc' = "decide"
                    /\ UNCHANGED <<step, stepsStarted, outcome, success>>
                    /\ UNCHANGED stepVars
       \/ HandleStepErrorCutting("other", TRUE, FALSE, CurrentHistory)

\* The model call of getNextAction returns a decision or throws.  After a
\* decision: _removeLastStateMessage, the third checkpoint, addModelOutput.
\* The catch block around them calls _removeLastStateMessage and rethrows.
StepDecides ==
    /\ pc = "decide"
    /\ UNCHANGED <<cachedState, cfg, fileVars, replayVars, compareVars, callVars, flagVars, batchVars>>
    /\ UNCHANGED <<sensitiveData, added>>
    /\ \/ \E args \in ArgTexts :
            LET removed == WithoutLastStateMessage(CurrentHistory)
            IN /\ UNCHANGED <<maxInputTokens, cut>>
               /\ IF CheckIfStoppedOrPaused
                  THEN /\ SetHistory(WithoutLastStateMessage(removed))
                       /\ UNCHANGED toolId
                       /\ StepInterrupted(TRUE)
                  ELSE /\ SetHistory(WithModelOutput(removed, args, toolId, sensitiveData))
                       /\ toolId' = toolId + 1
                       /\ pc' = "act"
                       /\ modelOutput' = TRUE
                       /\ UNCHANGED <<step, stepsStarted, outcome, success>>
                       /\ UNCHANGED <<consecutive_failures, last_result, history, lastStep,
                                      state, errKind>>
       \/ \E kind \in ModelCallErrorKinds :
            /\ UNCHANGED toolId
            /\ HandleStepErrorCutting(kind, TRUE, FALSE,
                                      WithoutLastStateMessage(CurrentHistory))

\* multiAct returns its results, or throws the InterruptedError of a
\* checkpoint or the error of a call.
StepActs ==
    /\ pc = "act"
    /\ UNCHANGED <<cachedState, cfg, fileVars, replayVars, compareVars, callVars, flagVars, batchVars>>
    /\ UNCHANGED <<sensitiveData, toolId, added>>
    /\ \/ \E res \in StepResults :
            /\ UNCHANGED <<messages, totalTokens, maxInputTokens, cut>>
            /\ EndStep(res, res, AfterSuccess(consecutive_failures), TRUE, TRUE, "returned")
       \/ /\ CheckIfStoppedOrPaused
          /\ UNCHANGED <<messages, totalTokens, maxInputTokens, cut>>
          /\ StepInterrupted(TRUE)
       \/ HandleStepErrorCutting("other", TRUE, TRUE, CurrentHistory)

\* Agent.addNewTask, called by the embedding program while a step is in
\* flight.
AddNewTask ==
    /\ pc \in {"observe", "plan", "decide", "act", "backoff"}
    /\ Len(NewTaskMessagesOf(messages)) < MaxNewTasks
    /\ SetHistory(WithNewTask(CurrentHistory, Filler(1), sensitiveData))
    /\ UNCHANGED <<maxInputTokens, sensitiveData, toolId, added, cut>>
    /\ UNCHANGED <<runVars, stepVars, batchVars, cachedState, cfg, flagVars, fileVars,
                   replayVars, compareVars, callVars>>

InitStep ==
    /\ pc = "init"
    /\ cfg \in StepConfigs
    /\ LET h == Constructed(Filler(1), <<>>)
       IN /\ messages = h.messages
          /\ totalTokens = h.totalTokens
          /\ maxInputTokens = cfg.max_input_tokens
          /\ sensitiveData = <<>>
          /\ toolId = 2
          /\ added = 0
          /\ cut = "none"
    /\ step = 0
    /\ stepsStarted = 0
    /\ outcome = "running"
    /\ success = FALSE
    /\ consecutive_failures = 0
    /\ last_result = <<>>
    /\ history = <<>>
    /\ lastStep = NoStep
    /\ state = FALSE
    /\ modelOutput = FALSE
    /\ errKind = "none"
    /\ NoBatch
    /\ cachedState = <<>>
    /\ paused = FALSE
    /\ stopped = FALSE
    /\ pauses = 0
    /\ NoHistoryFile
    /\ NoReplay
    /\ NoCompare
    /\ NoNavigation

NextStep ==
    \/ RunStart
    \/ StepAddsState
    \/ StepPlans
    \/ StepDecides
    \/ StepActs
    \/ StepBackoff
    \/ Poll
    \/ AddNewTask
    \/ Pause
    \/ Resume
    \/ Stop

SpecStep == InitStep /\ [][NextStep]_vars

(***************************************************************************)
(* Properties of the step and the message history (specification          *)
(* SpecStep).                                                              *)
(***************************************************************************)
\* The state message that step n added is in the list of messages.
HoldsStateOf(msgs, n) ==
    \E j \in 1..Len(msgs) :
        msgs[j].message.type = "human" /\ msgs[j].message.text = StateDescription(n)

\* The step is the continuation of the model call in which the step ends.
ModelCallEndsStep == pc = "decide" /\ lastStep'.n = stepsStarted

\* The step is a model call that threw a parse or schema failure, which
\* _handleStepError has turned into the result of the step.
ModelCallFailsToDecide ==
    /\ ModelCallEndsStep
    /\ lastStep'.ending = "failed"
    /\ lastStep'.result[1].error \in {"parse", "other"}

\* C24: when the model call of a step fails to produce a valid decision,
\* the state message that the step added is no longer in the message
\* history when the step has handled the error.
C24_FailedCallRemovesState ==
    [][ ModelCallFailsToDecide => ~HoldsStateOf(messages', stepsStarted) ]_vars

\* The step is a model call whose error handling has run cutMessages.
TokenLimitHandled ==
    /\ ModelCallEndsStep
    /\ \/ lastStep'.ending = "threw"
       \/ lastStep'.ending = "failed" /\ lastStep'.result[1].error = "token_limit"

\* C25: in the continuation of the model call, every message other than
\* the state message of the step stays where it is, also when the
\* continuation ends the step at the checkpoint that follows a decision.
\* (The steps that run cutMessages, and the histories with a new-task
\* message, are left aside.)
C25_OnlyStateMessageRemoved ==
    [][ (pc = "decide" /\ pc' # "decide" /\ ~TokenLimitHandled
            /\ NewTaskMessagesOf(messages) = <<>>)
          => \A j \in 1..Len(messages) :
                messages[j].message.text # StateDescription(stepsStarted)
                   => (j <= Len(messages') /\ messages'[j] = messages[j]) ]_vars

\* C26: a new-task message, once in the message history, stays in it.
C26_NewTaskKept ==
    [][ Len(NewTaskMessagesOf(messages')) >= Len(NewTaskMessagesOf(messages)) ]_vars

\* C27: while no step is between its addStateMessage and its clean-up,
\* the message history holds no state message.
C27_NoStateBetweenSteps ==
    pc \in {"observe", "poll", "done"} => StateMessagesOf(messages) = <<>>

\* C28: the budget changes and cutMessages runs only in the continuation of
\* a model call that handles a token-limit error; that handling lowers the
\* budget by the fixed amount, cutMessages returns, and the step returns
\* with the error as its result, so that the run loop goes on.
C28_TokenLimitCutsAndContinues ==
    [][ /\ (maxInputTokens' # maxInputTokens \/ cut' # cut) => TokenLimitHandled
        /\ TokenLimitHandled =>
              /\ maxInputTokens' = cfg.max_input_tokens - TokenReduction
              /\ cut' = "returned"
              /\ lastStep'.ending = "failed"
              /\ outcome' # "failed" ]_vars

\* The step is a model call that ended the step with a parse failure: the
\* error of getNextAction, or a ValidationError with the parse signal.
ParseFailureEndsStep ==
    /\ ModelCallEndsStep
    /\ lastStep'.ending = "failed"
    /\ lastStep'.result[1].error \in {"parse", Unparsed}

\* C29: a step whose model output could not be parsed leaves the error
\* result as the last result, and the run ends there only if stop() was
\* called or no step is left.
C29_ParseFailureContinues ==
    [][ ParseFailureEndsStep =>
           /\ last_result' = lastStep'.result
           /\ pc' = "done" => (stopped \/ step + 1 >= MaxSteps) ]_vars

\* C30, as stated: when the retry delay after a rate-limit error has
\* passed, the loop proceeds to the next step; if the failures counted so
\* far are rate-limit errors too, the run ends there only if stop() was
\* called or no step is left.
C30_RateLimitNeverEndsRun ==
    [][ (/\ pc = "backoff" /\ pc' # "backoff"
         /\ consecutive_failures > 0 => last_result = <<StepErrorResult("rate_limit")>>
         /\ consecutive_failures <= 1)
          => (pc' = "done" => (stopped \/ step + 1 >= MaxSteps)) ]_vars

\* C30, amended: a step waits for the retry delay only after a rate-limit
\* error of its model call and does nothing else while it waits; when the
\* delay has passed the error is the result of the step and counts as one
\* failure, and the loop goes on: the run ends there if stop() was called,
\* no step is left or the failure counter has reached its maximum, and
\* otherwise the next step starts, at once or when the pause is lifted.
C30_RateLimitWaitsOnceAndContinues ==
    [][ /\ (pc' = "backoff" /\ pc # "backoff") => (pc = "decide" /\ UNCHANGED lastStep)
        /\ (pc = "backoff" /\ pc' = "backoff") => UNCHANGED <<runVars, stepVars>>
        /\ (pc = "backoff" /\ pc' # "backoff") =>
           /\ last_result' = <<StepErrorResult("rate_limit")>>
           /\ lastStep' = [n |-> stepsStarted, result |-> last_result', ending |-> "failed"]
           /\ consecutive_failures' = consecutive_failures + 1
           /\ IF stopped \/ step + 1 >= MaxSteps
                 \/ consecutive_failures + 1 >= MaxFailures
              THEN pc' = "done" /\ outcome' = "returned"
              ELSE /\ step' = step + 1
                   /\ IF paused THEN pc' = "poll" /\ stepsStarted' = stepsStarted
                      ELSE pc' = "observe" /\ stepsStarted' = stepsStarted + 1 ]_vars

\* The step after a rate-limit error has built its prompt, with the error
\* as an 'Action error' message before its state message.
C30_Witness ==
    /\ pc = "decide"
    /\ lastStep.n = stepsStarted - 1
    /\ last_result = <<StepErrorResult("rate_limit")>>
    /\ consecutive_failures = 1
    /\ Len(messages) >= 2
    /\ messages[Len(messages) - 1].message.text = Filler(ActionErrorLen) \o <<"rate_limit">>
    /\ messages[Len(messages)].message.text = StateDescription(stepsStarted)

(***************************************************************************)
(* BrowserContext: the allow-list of domains, and the navigation check of  *)
(* getState and _clickElementNode.  A host name is the sequence of its     *)
(* labels; errors are known by their name.                                 *)
(***************************************************************************)
MaxBack == 2         \* the pages goBack can return to

\* String.toLowerCase on a label
ToLowerCase(label) == IF label = "EXAMPLE" THEN "example" ELSE label
LowerHost(host) == [k \in 1..Len(host) |-> ToLowerCase(host[k])]

\* The pages: about:blank has an empty host name, and the host name a URL
\* is parsed to is in lower case.
AboutBlank == [valid |-> TRUE, host |-> <<>>]
Hosts == { <<"example", "com">>, <<"www", "example", "com">>, <<"notexample", "com">> }
Urls == { [valid |-> TRUE, host |-> h] : h \in Hosts } \cup {AboutBlank}

\* config.allowedDomains: undefined, or a list of domains
NoDomains == [set |-> FALSE]
AllowLists == { NoDomains, [set |-> TRUE, domains |-> {<<"example", "com">>}],
                [set |-> TRUE, domains |-> {<<"EXAMPLE", "com">>}] }

\* host.endsWith('.' + domain)
EndsWithDot(host, domain) ==
    /\ Len(domain) < Len(host)
    /\ SubSeq(host, Len(host) - Len(domain) + 1, Len(host)) = domain

\* BrowserContext._isUrlAllowed: a URL that cannot be parsed is not
\* allowed.
IsUrlAllowed(u) ==
    IF ~config.allowedDomains.set THEN TRUE
    ELSE IF ~u.valid THEN FALSE
    ELSE \E d \in config.allowedDomains.domains :
            \/ LowerHost(u.host) = LowerHost(d)
            \/ EndsWithDot(LowerHost(u.host), LowerHost(d))

\* The test of the catch clauses: only an error named URLNotAllowedError
\* is thrown again as it is.
RethrowsNothing(name) == FALSE
IsURLNotAllowedError(name) == name = "URLNotAllowedError"

\* page.goBack() under BrowserContext.goBack: the page it leaves the
\* browser on, and the pages left to go back to; a failure is logged and
\* the page stays where it is.
BackTo(page, stack, ok) == IF ok /\ stack # <<>> THEN stack[Len(stack)] ELSE page
BackStack(stack, ok) == IF ok /\ stack # <<>> THEN SubSeq(stack, 1, Len(stack) - 1) ELSE stack

\* A navigation of the page to another URL: the page it leaves is one to
\* go back to.
Visit(stack, from, to) ==
    IF to = from THEN stack
    ELSE IF Len(stack) < MaxBack THEN Append(stack, from)
    ELSE Append(SubSeq(stack, 2, Len(stack)), from)

\* BrowserContext._checkAndHandleNavigation on a page: the name of the
\* error it throws, "none" when it returns.
CheckAndHandleNavigation(page) ==
    IF IsUrlAllowed(page) THEN "none" ELSE "URLNotAllowedError"

\* The catch clause of _waitForPageAndFramesLoad: what the function
\* throws for an error of its try block.
WaitForPageAndFramesLoadCatch(name) ==
    IF name = "none" \/ ~IsURLNotAllowedError(name) THEN "none" ELSE name

\* The configuration of the browser context is chosen before any call.
Configure ==
    /\ pc = "browser"
    /\ navCall.op = "none"
    /\ config = [allowedDomains |-> NoDomains, saveDownloadsPath |-> FALSE]
    /\ \E allowed \in AllowLists \ {NoDomains}, downloads \in BOOLEAN :
          config' = [allowedDomains |-> allowed, saveDownloadsPath |-> downloads]
    /\ UNCHANGED <<url, backStack, navCall, regCall, inputMessages>>
    /\ UNCHANGED <<runVars, stepVars, batchVars, cachedState, cfg, flagVars, mmVars, fileVars, replayVars, compareVars>>

\* The page navigates by itself (a redirect, a script) while no call is
\* in flight.
PageNavigates ==
    /\ pc = "browser"
    /\ navCall.phase = "done"
    /\ \E to \in Urls \ {url} :
          /\ url' = to
          /\ backStack' = Visit(backStack, url, to)
    /\ UNCHANGED <<config, navCall, regCall, inputMessages>>
    /\ UNCHANGED <<runVars, stepVars, batchVars, cachedState, cfg, flagVars, mmVars, fileVars, replayVars, compareVars>>

\* BrowserContext.getState up to the end of _waitForPageAndFramesLoad:
\* the wait for a stable network ends idle, ends at the maximum wait, or
\* throws; the page is checked when it did not throw.
GetState ==
    /\ pc = "browser"
    /\ navCall.phase = "done"
    /\ \E wait \in {"idle", "timeout", "threw"}, backOk \in BOOLEAN :
        LET thrown == IF wait = "threw" THEN "Error" ELSE CheckAndHandleNavigation(url)
            back == thrown = "URLNotAllowedError"
            rejected == WaitForPageAndFramesLoadCatch(thrown)
        IN /\ url' = IF back THEN BackTo(url, backStack, backOk) ELSE url
           /\ backStack' = IF back THEN BackStack(backStack, backOk) ELSE backStack
           /\ navCall' = [op |-> "getState", phase |-> "done", tries |-> 0, wait |-> wait,
                          checked |-> IF wait = "threw" THEN <<>> ELSE <<url>>,
                          wentBack |-> back, thrown |-> rejected]
    /\ UNCHANGED <<config, regCall, inputMessages>>
    /\ UNCHANGED <<runVars, stepVars, batchVars, cachedState, cfg, flagVars, mmVars, fileVars, replayVars, compareVars>>

\* The start of BrowserContext._clickElementNode: the element is located,
\* or the error of the missing element is wrapped by the outer catch.
ClickElementNode ==
    /\ pc = "browser"
    /\ navCall.phase = "done"
    /\ \E located \in BOOLEAN :
          navCall' = IF located
                     THEN [op |-> "click", phase |-> "click", tries |-> 0, wait |-> "idle",
                           checked |-> <<>>, wentBack |-> FALSE, thrown |-> "none"]
                     ELSE [op |-> "click", phase |-> "done", tries |-> 0, wait |-> "idle",
                           checked |-> <<>>, wentBack |-> FALSE, thrown |-> "BrowserError"]
    /\ UNCHANGED <<config, url, backStack, regCall, inputMessages>>
    /\ UNCHANGED <<runVars, stepVars, batchVars, cachedState, cfg, flagVars, mmVars, fileVars, replayVars, compareVars>>

\* What performClick throws, given the error of the click itself, what
\* the wait for a download ended with and the page the click left the
\* browser on; checks tells whether the page was checked.
PerformClickChecks(click, download) ==
    IF config.saveDownloadsPath
    THEN click = "TimeoutError" \/ (click = "none" /\ download = "TimeoutError")
    ELSE click = "none"
PerformClick(click, download, page) ==
    IF PerformClickChecks(click, download) THEN CheckAndHandleNavigation(page)
    ELSE IF click # "none" THEN click
    ELSE IF config.saveDownloadsPath /\ download # "download" THEN download
    ELSE "none"

\* One call of performClick in _clickElementNode, with the catch clauses
\* around it: the first one clicks through the element handle, the
\* second one through page.evaluate.
PerformClickCall ==
    /\ pc = "browser"
    /\ navCall.op = "click"
    /\ navCall.phase = "click"
    /\ \E click \in {"none", "TimeoutError", "Error"}, download \in {"download", "TimeoutError", "Error"},
          to \in Urls, backOk \in BOOLEAN :
        LET page == IF click = "Error" THEN url ELSE to
            visited == Visit(backStack, url, page)
            checks == PerformClickChecks(click, download)
            thrown == PerformClick(click, download, page)
            back == checks /\ thrown = "URLNotAllowedError"
            last == navCall.tries = 1
        IN /\ url' = IF back THEN BackTo(page, visited, backOk) ELSE page
           /\ backStack' = IF back THEN BackStack(visited, backOk) ELSE visited
           /\ navCall' =
                [navCall EXCEPT
                    !.tries = @ + 1,
                    !.checked = IF checks THEN <<page>> ELSE <<>>,
                    !.wentBack = back,
                    !.phase = IF thrown = "none" \/ IsURLNotAllowedError(thrown) \/ last
                              THEN "done" ELSE "click",
                    !.thrown = IF thrown = "none" \/ IsURLNotAllowedError(thrown) THEN thrown
                               ELSE IF last THEN "BrowserError" ELSE "none"]
    /\ UNCHANGED <<config, regCall, inputMessages>>
    /\ UNCHANGED <<runVars, stepVars, batchVars, cachedState, cfg, flagVars, mmVars, fileVars, replayVars, compareVars>>

InitBrowser ==
    /\ pc = "browser"
    /\ NewMessageManager(Filler(1), <<>>, MaxSlack)
    /\ cfg = [validate_output |-> FALSE, initial_actions |-> [has |-> FALSE, acts |-> <<>>]]
    /\ step = 0
    /\ stepsStarted = 0
    /\ outcome = "running"
    /\ success = FALSE
    /\ consecutive_failures = 0
    /\ last_result = <<>>
    /\ history = <<>>
    /\ lastStep = NoStep
    /\ state = FALSE
    /\ modelOutput = FALSE
    /\ errKind = "none"
    /\ NoBatch
    /\ cachedState = <<>>
    /\ paused = FALSE
    /\ stopped = FALSE
    /\ pauses = 0
    /\ NoHistoryFile
    /\ NoReplay
    /\ NoCompare
    /\ NoNavigation

NextBrowser ==
    \/ Configure
    \/ PageNavigates
    \/ GetState
    \/ ClickElementNode
    \/ PerformClickCall

SpecBrowser == InitBrowser /\ [][NextBrowser]_vars

\* C34: when the navigation check of getState or _clickElementNode sees
\* a page outside the allow-list, the browser context goes back and the
\* call ends by throwing URLNotAllowedError, whatever catch clause the
\* error passes; when the wait for the page load ends at its maximum
\* wait and the page is allowed, getState goes on.
C34_NavigationBlockedNeverSwallowed ==
    navCall.op # "none" =>
        /\ (navCall.checked # <<>> /\ ~IsUrlAllowed(navCall.checked[1]))
              => (navCall.phase = "done" /\ navCall.wentBack /\ navCall.thrown = "URLNotAllowedError")
        /\ (navCall.op = "getState" /\ navCall.wait = "timeout" /\ IsUrlAllowed(navCall.checked[1]))
              => navCall.thrown = "none"

\* A click through page.evaluate, after the click through the element
\* handle failed, left the browser on a page outside the allow-list: the
\* call threw URLNotAllowedError and the browser is back on the page it
\* was on.
C34_Witness ==
    /\ navCall.op = "click"
    /\ navCall.tries = 2
    /\ navCall.checked # <<>>
    /\ ~IsUrlAllowed(navCall.checked[1])
    /\ navCall.thrown = "URLNotAllowedError"
    /\ IsUrlAllowed(url)
    /\ url # navCall.checked[1]

(***************************************************************************)
(* Registry.executeAction: the validation of the parameters, the           *)
(* replacement of the secret placeholders, and the handler of input_text.  *)
(* A parameter value is a string, a number or an array.                    *)
(***************************************************************************)
MaxCalls == 2        \* the results a history list holds

Str(s) == [type |-> "string", s |-> s]
Num(n) == [type |-> "number", n |-> n]
Arr(items) == [type |-> "array", items |-> items]

\* A secret value that holds "$$", and a placeholder no value is
\* configured for.
DollarValue == <<"p", "$", "$">>
UnknownKey == <<"u">>

\* The sensitiveData argument: undefined (the empty list), or a map with
\* one entry.
RegistrySecrets ==
    { <<>>, <<[key |-> SecretKey, val |-> SecretValue]>>,
      <<[key |-> SecretKey, val |-> DollarValue]>> }

\* The strings of the parameters.
ParamTexts ==
    { Filler(1), Placeholder(SecretKey), Placeholder(UnknownKey),
      Placeholder(SecretKey) \o Filler(1) \o Placeholder(SecretKey) }

\* The parameters of a call: those of input_text, and those of an action
\* the embedding program registered with an array of strings; the schema
\* is violated by a string where a number is expected, a number where a
\* string is expected, or a string where an array is expected.
ActionParams(actionName) ==
    IF actionName = "input_text"
    THEN { [index |-> index, text |-> text] :
              index \in {Num(1), Str(Filler(1))},
              text \in { Str(s) : s \in ParamTexts } \cup {Num(1)} }
    ELSE { [values |-> Arr(<<Str(s), Str(t)>>)] :
              s \in {Filler(1), Placeholder(SecretKey)}, t \in {Placeholder(SecretKey)} }
         \cup { [values |-> Str(Placeholder(SecretKey))] }

\* The actions of the registry, and a name that is not registered.
RegisteredActions == {"input_text", "custom"}
ActionNames == RegisteredActions \cup {"unknown"}

\* schema.safeParse(params).success
SafeParse(actionName, params) ==
    IF actionName = "input_text"
    THEN params.index.type = "number" /\ params.text.type = "string"
    ELSE /\ params.values.type = "array"
         /\ \A k \in 1..Len(params.values.items) : params.values.items[k].type = "string"

\* The replacement string of String.prototype.replace: "$$" inserts one "$".
RECURSIVE ReplacementText(_)
ReplacementText(by) ==
    IF by = <<>> THEN <<>>
    ELSE IF Len(by) >= 2 /\ by[1] = "$" /\ by[2] = "$"
    THEN <<"$">> \o ReplacementText(SubSeq(by, 3, Len(by)))
    ELSE <<by[1]>> \o ReplacementText(Tail(by))

\* result.replace(pattern, by), repeated n times
RECURSIVE ReplaceTimes(_, _, _, _)
ReplaceTimes(s, pattern, by, n) ==
    IF n = 0 THEN s
    ELSE ReplaceTimes(ReplaceFirst(s, pattern, ReplacementText(by)), pattern, by, n - 1)

\* The number of matches of <secret>(.*?)</secret> in a string that hold
\* the key.
PlaceholderMatches(s, key) ==
    Cardinality({ j \in 1..Len(s) : Occurs(s, Placeholder(key), j) })

\* replaceSecrets on a string: one replace per match whose placeholder has
\* a truthy value in the map.
RECURSIVE ReplaceSecretsInString(_, _)
ReplaceSecretsInString(s, entries) ==
    IF entries = <<>> THEN s
    ELSE ReplaceSecretsInString(
             IF Head(entries).val # <<>>
             THEN ReplaceTimes(s, Placeholder(Head(entries).key), Head(entries).val,
                               PlaceholderMatches(s, Head(entries).key))
             ELSE s,
             Tail(entries))

\* replaceSecrets: strings, the items of arrays, other values as they are
RECURSIVE ReplaceSecrets(_, _)
ReplaceSecrets(value, entries) ==
    IF value.type = "string" THEN Str(ReplaceSecretsInString(value.s, entries))
    ELSE IF value.type = "array"
    THEN Arr([k \in 1..Len(value.items) |-> ReplaceSecrets(value.items[k], entries)])
    ELSE value

\* Registry.replaceSensitiveData, called when sensitiveData is given
ReplaceSensitiveData(params, entries) ==
    IF entries = <<>> THEN params
    ELSE [f \in DOMAIN params |-> ReplaceSecrets(params[f], entries)]

\* extraArgs.hasSensitiveData as executeAction sets it: the name it tests
\* is not the name input_text is registered with.
HasSensitiveData(actionName, entries) == actionName = "inputText" /\ entries # <<>>

\* The message of the result of input_text: the text that was typed, or
\* the note that sensitive data was typed.
TypedPrefix == <<"t">>
SensitiveNote == <<"s">>
InputTextMessage(params, hasSensitiveData) ==
    IF ~hasSensitiveData THEN TypedPrefix \o params.text.s ELSE SensitiveNote

\* The ActionResult of a handler
HandlerResult(actionName, params, hasSensitiveData) ==
    [extractedContent |-> IF actionName = "input_text"
                          THEN InputTextMessage(params, hasSensitiveData)
                          ELSE Filler(1),
     error |-> "", includeInMemory |-> TRUE]

NoResult == [extractedContent |-> <<>>, error |-> "", includeInMemory |-> FALSE]

\* Registry.executeAction: failed names what made it throw ("none" when it
\* returned), invoked tells whether the handler was called, received is
\* what the handler was called with.
ExecuteAction ==
    /\ pc = "registry"
    /\ Len(history) < MaxCalls
    /\ ~regCall.called \/ regCall.recorded \/ regCall.failed # "none"
    /\ \E actionName \in ActionNames, entries \in RegistrySecrets, inSelectorMap \in BOOLEAN :
        \E params \in ActionParams(actionName) :
          LET registered == actionName \in RegisteredActions
              valid == registered /\ SafeParse(actionName, params)
              replaced == ReplaceSensitiveData(params, entries)
              handlerThrows == actionName = "input_text" /\ ~inSelectorMap
              failed == IF ~registered THEN "not_found"
                        ELSE IF ~valid THEN "validation"
                        ELSE IF handlerThrows THEN "handler"
                        ELSE "none"
          IN regCall' = [called |-> TRUE, recorded |-> FALSE,
                         actionName |-> actionName, params |-> params,
                         sensitiveData |-> entries, failed |-> failed,
                         thrown |-> IF failed = "none" THEN "none" ELSE "Error",
                         invoked |-> valid,
                         received |-> IF valid THEN replaced ELSE params,
                         result |-> IF failed = "none"
                                    THEN HandlerResult(actionName, replaced,
                                                       HasSensitiveData(actionName, entries))
                                    ELSE NoResult]
    /\ UNCHANGED <<config, url, backStack, navCall, inputMessages>>
    /\ UNCHANGED <<runVars, stepVars, batchVars, cachedState, cfg, flagVars, mmVars, fileVars, replayVars, compareVars>>

\* Agent.step keeps the result of the action as the last result and in
\* the entry it appends to the history list.
StepRecordsResult ==
    /\ pc = "registry"
    /\ regCall.called
    /\ regCall.failed = "none"
    /\ ~regCall.recorded
    /\ regCall' = [regCall EXCEPT !.recorded = TRUE]
    /\ last_result' = <<regCall.result>>
    /\ history' = Append(history, regCall.result)
    /\ UNCHANGED <<consecutive_failures, lastStep, state, modelOutput, errKind>>
    /\ UNCHANGED <<config, url, backStack, navCall, inputMessages>>
    /\ UNCHANGED <<runVars, batchVars, cachedState, cfg, flagVars, mmVars, fileVars, replayVars, compareVars>>

\* Agent.saveHistory writes the history list to the file.
SaveHistory ==
    /\ pc = "registry"
    /\ history # <<>>
    /\ IF file.written THEN file.history # history ELSE TRUE
    /\ file' = [written |-> TRUE, history |-> history]
    /\ UNCHANGED <<recorded, saved, loaded>>
    /\ UNCHANGED <<runVars, stepVars, batchVars, cachedState, cfg, flagVars, mmVars, replayVars, compareVars, callVars>>

InitRegistry ==
    /\ pc = "registry"
    /\ NewMessageManager(Filler(1), <<>>, MaxSlack)
    /\ cfg = [validate_output |-> FALSE, initial_actions |-> [has |-> FALSE, acts |-> <<>>]]
    /\ step = 0
    /\ stepsStarted = 0
    /\ outcome = "running"
    /\ success = FALSE
    /\ consecutive_failures = 0
    /\ last_result = <<>>
    /\ history = <<>>
    /\ lastStep = NoStep
    /\ state = FALSE
    /\ modelOutput = FALSE
    /\ errKind = "none"
    /\ NoBatch
    /\ cachedState = <<>>
    /\ paused = FALSE
    /\ stopped = FALSE
    /\ pauses = 0
    /\ NoHistoryFile
    /\ NoReplay
    /\ NoCompare
    /\ NoNavigation

NextRegistry ==
    \/ ExecuteAction
    \/ StepRecordsResult
    \/ SaveHistory

SpecRegistry == InitRegistry /\ [][NextRegistry]_vars

\* Every occurrence of a pattern in a string replaced by a text as it is.
RECURSIVE SubstituteAll(_, _, _)
SubstituteAll(s, pattern, by) ==
    IF ~Contains(s, pattern) THEN s
    ELSE SubstituteAll(ReplaceFirst(s, pattern, by), pattern, by)

\* A parameter value with the placeholder of every configured secret
\* replaced by the value of the secret, in strings and in the strings of
\* arrays.
RECURSIVE WithSecrets(_, _)
WithSecrets(value, entries) ==
    IF entries = <<>> THEN value
    ELSE IF value.type = "string"
    THEN WithSecrets(Str(SubstituteAll(value.s, Placeholder(Head(entries).key), Head(entries).val)),
                     Tail(entries))
    ELSE IF value.type = "array"
    THEN Arr([k \in 1..Len(value.items) |-> WithSecrets(value.items[k], entries)])
    ELSE value

\* C35: executeAction called with parameters that violate the schema of
\* the action throws an error that names the violation and does not call
\* the handler; called with valid parameters it calls the handler with
\* the placeholder of every configured secret replaced by the value of
\* the secret, in every string of the parameters, arrays included.
C35_ValidatedThenSubstituted ==
    (regCall.called /\ regCall.actionName \in RegisteredActions) =>
        IF ~SafeParse(regCall.actionName, regCall.params)
        THEN regCall.thrown # "none" /\ regCall.failed = "validation" /\ ~regCall.invoked
        ELSE /\ regCall.invoked
             /\ regCall.received =
                   [f \in DOMAIN regCall.params |->
                       WithSecrets(regCall.params[f], regCall.sensitiveData)]

\* A text holds the value of a secret.
HoldsSecret(text) == Contains(text, SecretValue) \/ Contains(text, DollarValue)

\* C37: with sensitive data configured, the result input_text returns
\* does not hold the value of a secret, and neither do the last result,
\* the history list and the file saveHistory writes.
C37_NoSecretInResults ==
    /\ (regCall.called /\ regCall.failed = "none" /\ regCall.sensitiveData # <<>>)
          => ~HoldsSecret(regCall.result.extractedContent)
    /\ \A k \in 1..Len(last_result) : ~HoldsSecret(last_result[k].extractedContent)
    /\ \A k \in 1..Len(history) : ~HoldsSecret(history[k].extractedContent)
    /\ file.written => \A k \in 1..Len(file.history) : ~HoldsSecret(file.history[k].extractedContent)

====
